---- MODULE Spec2Model ----
(***************************************************************************)
(* A model of lolrepl, a PostgreSQL logical replication client:            *)
(*   - the v3 message framer of Connection (src/src/conn.rs),              *)
(*   - the streaming loop of Subscriber::next with its pgoutput decoder    *)
(*     (src/src/sub.rs),                                                   *)
(*   - the text/binary value decoder (src/src/value.rs).                   *)
(* Bytes are the naturals 0..255 and every wire message is a sequence of   *)
(* bytes.  The transport is a sequence whose elements are bytes or         *)
(* negative markers standing for the outcome of a read that fails.         *)
(***************************************************************************)
EXTENDS Integers, Sequences, FiniteSets, TLC

VARIABLES
    \* ---- framer round trip (Connection::write_message / read_message)
    f_pc,               \* "start" | "written" | "read"
    f_type,             \* the message type byte handed to write_message
    f_data,             \* the payload handed to write_message
    f_copy,             \* the copy_data flag used on both sides
    f_wire,             \* the bytes on the transport
    f_trail,            \* the bytes that follow the frame on the transport
    f_msg,              \* what read_message returned
    \* ---- Subscriber (streaming)
    pc,                 \* "idle" | "loop" | "read": position inside next
    inbound,            \* transport, server to client: bytes and markers
    wrote,              \* the frames written by the last step (bytes each)
    relation_cache,     \* relation_id -> RelationInfo, NoRel when absent
    last_received_lsn,  \* u64
    last_status_update, \* Instant, in seconds of the monotonic clock
    now,                \* the monotonic clock, in seconds
    result,             \* what the last call of next returned
    message,            \* the PgMessage the last read_message returned
    accepted,           \* every wal_end taken from a keepalive or WAL frame
    replaced            \* the last cache insert overwrote a different entry

frameVars == <<f_pc, f_type, f_data, f_copy, f_wire, f_trail, f_msg>>
subVars == <<pc, inbound, wrote, relation_cache, last_received_lsn,
             last_status_update, now, result, message, accepted, replaced>>
vars == <<f_pc, f_type, f_data, f_copy, f_wire, f_trail, f_msg,
          pc, inbound, wrote, relation_cache, last_received_lsn,
          last_status_update, now, result, message, accepted, replaced>>

(***************************************************************************)
(* Bounds of the model.                                                    *)
(***************************************************************************)
MaxPayload == 2     \* longest payload of the framer round trip
MaxBacklog == 0     \* the server sends when at most this much is unread
MaxTime == 15       \* the clock stops here
TickStep == 5       \* seconds the clock advances in one step
MaxFields == 3      \* most fields of an ErrorResponse payload

(***************************************************************************)
(* Message type bytes and markers.                                         *)
(***************************************************************************)
Byte_d == 100   \* b'd' CopyData
Byte_k == 107   \* b'k' primary keepalive
Byte_w == 119   \* b'w' WAL data
Byte_E == 69    \* b'E' ErrorResponse
Byte_r == 114   \* b'r' standby status update
Byte_B == 66
Byte_C == 67
Byte_I == 73
Byte_U == 85
Byte_D == 68
Byte_R == 82
Byte_N == 78
Byte_O == 79
Byte_t == 116
Byte_b == 98
Byte_n == 110
Byte_u == 117

\* Outcomes of a transport read that returns no bytes, as stream elements.
WouldBlock == -1        \* io::ErrorKind::WouldBlock
TimedOut == -2          \* io::ErrorKind::TimedOut
UnexpectedEof == -3     \* the peer closed the stream: read_exact fails
ConnectionReset == -4   \* any other io::ErrorKind

IsByte(x) == x >= 0
IsMarker(x) == x < 0

(***************************************************************************)
(* Fixed-width integers.                                                   *)
(***************************************************************************)
Drop(s, n) == SubSeq(s, n + 1, Len(s))
Take(s, n) == SubSeq(s, 1, n)

\* TLC computes with 32-bit integers, so every value of the model lies in
\* -2^31 .. 2^31-1; wider fields (u64, i64) carry values of that range only.
MinI32 == -2147483647 - 1

\* `x as usize` of an i32 on a 64-bit target sign-extends: a negative x
\* becomes a value of at least 2^63.  The model keeps the i32 and tests the
\* sign where the code uses the usize.
usize_is_huge(x) == x < 0

RECURSIVE to_be_bytes(_, _)
\* The n big-endian bytes of the unsigned value u.
to_be_bytes(u, n) ==
    IF n = 0 THEN <<>>
    ELSE Append(to_be_bytes(u \div 256, n - 1), u % 256)

\* i32::to_be_bytes: two's complement.
i32_to_be_bytes(x) ==
    IF x >= 0 THEN to_be_bytes(x, 4)
    ELSE LET y == x - MinI32
         IN  <<128 + (y \div 16777216)>> \o to_be_bytes(y % 16777216, 3)

u64_to_be_bytes(x) == to_be_bytes(x, 8)
i64_to_be_bytes(x) ==
    IF x >= 0 THEN to_be_bytes(x, 8)
    ELSE <<255, 255, 255, 255>> \o i32_to_be_bytes(x)

RECURSIVE from_be_bytes(_)
\* The unsigned value of a big-endian byte sequence.
from_be_bytes(bs) ==
    IF bs = <<>> THEN 0
    ELSE from_be_bytes(SubSeq(bs, 1, Len(bs) - 1)) * 256 + bs[Len(bs)]

\* i32::from_be_bytes: two's complement.
i32_from_be_bytes(bs) ==
    IF bs[1] >= 128
    THEN from_be_bytes(<<bs[1] - 128, bs[2], bs[3], bs[4]>>) + MinI32
    ELSE from_be_bytes(bs)

\* i64::from_be_bytes, for values of the 32-bit range.
i64_from_be_bytes(bs) ==
    IF Take(bs, 4) = <<255, 255, 255, 255>>
    THEN i32_from_be_bytes(Drop(bs, 4))
    ELSE from_be_bytes(bs)

u16_from_be_bytes(bs) == from_be_bytes(bs)
u32_from_be_bytes(bs) == from_be_bytes(bs)
u64_from_be_bytes(bs) == from_be_bytes(bs)

(***************************************************************************)
(* The transport: Read::read_exact over bytes and markers.                 *)
(***************************************************************************)
\* Index of the first marker among the first n elements of s, 0 if none.
FirstMarker(s, n) ==
    LET idx == {i \in 1..(IF Len(s) < n THEN Len(s) ELSE n) : IsMarker(s[i])}
    IN  IF idx = {} THEN 0 ELSE CHOOSE i \in idx : \A j \in idx : i <= j

\* read_exact(buf of n bytes): all n bytes, or the error of the first read
\* that fails; the bytes read before the failure are gone.  With fewer than
\* n bytes and no marker the call has not returned yet ("blocked").
read_exact(s, n) ==
    IF n = 0 THEN [status |-> "ok", kind |-> 0, bytes |-> <<>>, rest |-> s]
    ELSE LET m == FirstMarker(s, n)
         IN  IF m # 0
             THEN [status |-> "io", kind |-> s[m], bytes |-> <<>>,
                   rest |-> Drop(s, m)]
             ELSE IF Len(s) >= n
             THEN [status |-> "ok", kind |-> 0, bytes |-> Take(s, n),
                   rest |-> Drop(s, n)]
             ELSE [status |-> "blocked", kind |-> 0, bytes |-> <<>>,
                   rest |-> s]

(***************************************************************************)
(* Connection::read_message and Connection::write_message.                 *)
(***************************************************************************)
NoMessage == [message_type |-> 0, data |-> <<>>]

\* A variant whose length field does not count its own four bytes.
write_message_LenExcludesSelf(message_type, data, copy_data) ==
    LET length == Len(data) + (IF copy_data THEN 1 ELSE 0)
    IN  <<(IF copy_data THEN Byte_d ELSE message_type)>>
        \o i32_to_be_bytes(length)
        \o (IF copy_data THEN <<message_type>> ELSE <<>>)
        \o data

\* The bytes write_message hands to write_all.
write_message(message_type, data, copy_data) ==
    LET length == (Len(data) + 4) + (IF copy_data THEN 1 ELSE 0)
    IN  <<(IF copy_data THEN Byte_d ELSE message_type)>>
        \o i32_to_be_bytes(length)
        \o (IF copy_data THEN <<message_type>> ELSE <<>>)
        \o data

\* A variant that unwraps every frame read in copy mode, whatever its type.
unwrap_copy_data_AnyType(message_type, data, copy_data) ==
    IF ~copy_data \/ data = <<>>
    THEN [message_type |-> message_type, data |-> data]
    ELSE [message_type |-> data[1], data |-> Drop(data, 1)]

\* The CopyData unwrapping at the end of read_message.
unwrap_copy_data(message_type, data, copy_data) ==
    IF ~copy_data \/ message_type # Byte_d \/ data = <<>>
    THEN [message_type |-> message_type, data |-> data]
    ELSE [message_type |-> data[1], data |-> Drop(data, 1)]

ReadFailed(r) ==
    [status |-> r.status, kind |-> r.kind, msg |-> NoMessage, rest |-> r.rest]

\* A variant that leaves the last payload byte of the frame on the stream.
message_after_data_LeavesLastByte(message_type, d, copy_data) ==
    IF d.status # "ok" THEN ReadFailed(d)
    ELSE [status |-> "ok", kind |-> 0,
          msg |-> unwrap_copy_data(message_type, d.bytes, copy_data),
          rest |-> IF d.bytes = <<>> THEN d.rest
                   ELSE <<d.bytes[Len(d.bytes)]>> \o d.rest]

\* read_message after the payload read d.
message_after_data(message_type, d, copy_data) ==
    IF d.status # "ok" THEN ReadFailed(d)
    ELSE [status |-> "ok", kind |-> 0,
          msg |-> unwrap_copy_data(message_type, d.bytes, copy_data),
          rest |-> d.rest]

\* `let data_length = length - 4; vec![0u8; data_length]`: with a length
\* below 4 the subtraction underflows (a panic in a debug build) or the
\* allocation of the wrapped size aborts (a release build).
message_after_length(message_type, length, rest, copy_data) ==
    IF usize_is_huge(length) \/ length < 4
    THEN [status |-> "panic", kind |-> 0, msg |-> NoMessage, rest |-> rest]
    ELSE message_after_data(message_type, read_exact(rest, length - 4),
                            copy_data)

\* read_message after the header read h.
message_after_header(h, copy_data) ==
    IF h.status # "ok" THEN ReadFailed(h)
    ELSE message_after_length(h.bytes[1],
                              i32_from_be_bytes(SubSeq(h.bytes, 2, 5)),
                              h.rest, copy_data)

\* read_message on the stream s: status "ok" with the message, "io" with the
\* error kind of the failed read, "panic", or "blocked" while the bytes have
\* not arrived.
read_message(s, copy_data) == message_after_header(read_exact(s, 5), copy_data)

(***************************************************************************)
(* PostgreSQL type OIDs (value.rs) and the text decoder.                   *)
(***************************************************************************)
PG_TYPE_BOOL == 16
PG_TYPE_BYTEA == 17
PG_TYPE_CHAR == 18
PG_TYPE_NAME == 19
PG_TYPE_INT8 == 20
PG_TYPE_INT2 == 21
PG_TYPE_INT4 == 23
PG_TYPE_TEXT == 25
PG_TYPE_OID == 26
PG_TYPE_JSON == 114
PG_TYPE_FLOAT4 == 700
PG_TYPE_FLOAT8 == 701
PG_TYPE_BPCHAR == 1042
PG_TYPE_VARCHAR == 1043
PG_TYPE_TIME == 1083
PG_TYPE_TIMESTAMPTZ == 1184
PG_TYPE_UUID == 2950
PG_TYPE_JSONB == 3802

Ok(v, rest) == [ok |-> TRUE, err |-> "", value |-> v, rest |-> rest]
Err(e) == [ok |-> FALSE, err |-> e, value |-> 0, rest |-> <<>>]

\* std::str::from_utf8 succeeds.  The model's texts are ASCII except for the
\* byte 0xFF, which no UTF-8 text contains.
is_utf8(bs) == \A i \in 1..Len(bs) : bs[i] < 128

IsDigit(c) == c >= 48 /\ c <= 57

RECURSIVE digits_value(_)
\* The value of a sequence of ASCII digits.
digits_value(bs) ==
    IF bs = <<>> THEN 0
    ELSE digits_value(SubSeq(bs, 1, Len(bs) - 1)) * 10 + (bs[Len(bs)] - 48)

\* str::parse::<i32>(): an optional sign, then one or more digits.  Texts of
\* the model have at most 9 digits, so the value always fits.
parse_i32(text) ==
    LET signed == text # <<>> /\ text[1] \in {43, 45}
        digits == IF signed THEN Drop(text, 1) ELSE text
    IN  IF digits = <<>> \/ Len(digits) > 9
           \/ \E i \in 1..Len(digits) : ~IsDigit(digits[i])
        THEN Err("ParseInt")
        ELSE Ok(IF signed /\ text[1] = 45 THEN 0 - digits_value(digits)
                ELSE digits_value(digits), <<>>)

\* str::parse::<i64>(): the same grammar; no text of the model overflows.
parse_i64(text) == parse_i32(text)

\* str::parse::<u32>(): an optional '+', then one or more digits.
parse_u32(text) ==
    LET signed == text # <<>> /\ text[1] = 43
        digits == IF signed THEN Drop(text, 1) ELSE text
    IN  IF digits = <<>> \/ Len(digits) > 9
           \/ \E i \in 1..Len(digits) : ~IsDigit(digits[i])
        THEN Err("ParseInt")
        ELSE Ok(digits_value(digits), <<>>)

IsHex(c) == IsDigit(c) \/ (c >= 97 /\ c <= 102) \/ (c >= 65 /\ c <= 70)
HexVal(c) == IF IsDigit(c) THEN c - 48
             ELSE IF c >= 97 THEN c - 87 ELSE c - 55

\* hex::decode: an even number of hex digits, of either case.
hex_decode(bs) ==
    IF Len(bs) % 2 # 0 \/ \E i \in 1..Len(bs) : ~IsHex(bs[i])
    THEN Err("HexDecode")
    ELSE Ok([i \in 1..(Len(bs) \div 2) |->
                HexVal(bs[2 * i - 1]) * 16 + HexVal(bs[2 * i])], <<>>)

RECURSIVE strip_zeros(_, _)
\* The decimal m * 10^e without trailing zeros in m.
strip_zeros(m, e) ==
    IF m = 0 THEN [m |-> 0, e |-> 0]
    ELSE IF m % 10 = 0 THEN strip_zeros(m \div 10, e + 1)
    ELSE [m |-> m, e |-> e]

\* str::parse::<f32>() and ::<f64>(): an optional sign, then "inf",
\* "infinity" or "nan" in either case, or digits with an optional '.' and
\* an optional exponent.  A finite value is kept as the decimal it was
\* written as, sign, m and e for m * 10^e: the texts of the model have at
\* most 6 digits and exponents from -3 to 3, so that no two of them round
\* to the same float and none overflows.
parse_float(text) ==
    LET signed == text # <<>> /\ text[1] \in {43, 45}
        neg == signed /\ text[1] = 45
        body == IF signed THEN Drop(text, 1) ELSE text
        lower == [i \in DOMAIN body |->
                    IF body[i] \in 65..90 THEN body[i] + 32 ELSE body[i]]
        es == {i \in DOMAIN body : body[i] \in {69, 101}}
        epos == IF es = {} THEN Len(body) + 1
                ELSE CHOOSE i \in es : \A j \in es : i <= j
        mant == SubSeq(body, 1, epos - 1)
        exp == IF es = {} THEN Ok(0, <<>>)
               ELSE parse_i32(SubSeq(body, epos + 1, Len(body)))
        dots == {i \in DOMAIN mant : mant[i] = 46}
        dpos == IF dots = {} THEN Len(mant) + 1
                ELSE CHOOSE i \in dots : \A j \in dots : i <= j
        frac == SubSeq(mant, dpos + 1, Len(mant))
        digits == SubSeq(mant, 1, dpos - 1) \o frac
    IN  IF lower \in {<<105, 110, 102>>, <<105, 110, 102, 105, 110, 105, 116, 121>>}
        THEN Ok([class |-> "inf", neg |-> neg, m |-> 0, e |-> 0], <<>>)
        ELSE IF lower = <<110, 97, 110>>
        THEN Ok([class |-> "nan", neg |-> neg, m |-> 0, e |-> 0], <<>>)
        ELSE IF digits = <<>> \/ Len(digits) > 9 \/ ~exp.ok
                \/ \E i \in 1..Len(digits) : ~IsDigit(digits[i])
        THEN Err("ParseFloat")
        ELSE Ok([class |-> "finite", neg |-> neg,
                 m |-> strip_zeros(digits_value(digits),
                                   exp.value - Len(frac)).m,
                 e |-> strip_zeros(digits_value(digits),
                                   exp.value - Len(frac)).e], <<>>)

\* `Ok(Value::Float(num))` / `Ok(Value::Double(num))`
tagged_float(tag, r) ==
    IF r.ok THEN Ok([tag |-> tag, f |-> r.value], <<>>) ELSE r

\* `Ok(Value::X(v))` when the parse r succeeded, its error otherwise.
tagged_int(tag, r) ==
    IF r.ok THEN Ok([tag |-> tag, i |-> r.value], <<>>) ELSE r

tagged_bytes(tag, r) ==
    IF r.ok THEN Ok([tag |-> tag, s |-> r.value], <<>>) ELSE r

\* parse_text_value for the OIDs whose text form is an integer, a float, a
\* boolean, a string or a bytea escape.
parse_text_value(text, type_id) ==
    CASE type_id = PG_TYPE_BOOL ->
            IF text = <<116>> THEN Ok([tag |-> "Boolean", b |-> TRUE], <<>>)
            ELSE IF text = <<102>>
            THEN Ok([tag |-> "Boolean", b |-> FALSE], <<>>)
            ELSE Err("ParseValue")
      [] type_id \in {PG_TYPE_INT2, PG_TYPE_INT4} ->
            tagged_int("Integer", parse_i32(text))
      [] type_id = PG_TYPE_INT8 -> tagged_int("BigInt", parse_i64(text))
      [] type_id = PG_TYPE_FLOAT4 -> tagged_float("Float", parse_float(text))
      [] type_id = PG_TYPE_FLOAT8 -> tagged_float("Double", parse_float(text))
      [] type_id = PG_TYPE_UUID -> Ok([tag |-> "Uuid", s |-> text], <<>>)
      [] type_id = PG_TYPE_JSON -> Ok([tag |-> "Json", s |-> text], <<>>)
      [] type_id = PG_TYPE_JSONB -> Ok([tag |-> "Jsonb", s |-> text], <<>>)
      [] type_id \in {PG_TYPE_TEXT, PG_TYPE_VARCHAR, PG_TYPE_CHAR,
                      PG_TYPE_NAME, PG_TYPE_BPCHAR} ->
            Ok([tag |-> "Text", s |-> text], <<>>)
      [] type_id = PG_TYPE_BYTEA ->
            IF Len(text) >= 2 /\ text[1] = 92 /\ text[2] = 120
            THEN tagged_bytes("Binary", hex_decode(Drop(text, 2)))
            ELSE Err("ParseValue")
      [] type_id = PG_TYPE_OID -> tagged_int("Integer", parse_u32(text))
      [] OTHER -> Err("ParseValue")

\* The lower-case hexadecimal digit of n.
hex_digit(n) == IF n < 10 THEN 48 + n ELSE 87 + n

\* `{:02x}` of every byte of bs, one after the other.
hex_bytes(bs) ==
    [i \in 1..(2 * Len(bs)) |->
        IF i % 2 = 1 THEN hex_digit(bs[(i + 1) \div 2] \div 16)
        ELSE hex_digit(bs[i \div 2] % 16)]

\* A variant that groups the 16 bytes as 4-2-2-4-4.
format_uuid_Grouped(b) ==
    hex_bytes(SubSeq(b, 1, 4)) \o <<45>> \o hex_bytes(SubSeq(b, 5, 6))
    \o <<45>> \o hex_bytes(SubSeq(b, 7, 8)) \o <<45>>
    \o hex_bytes(SubSeq(b, 9, 12)) \o <<45>> \o hex_bytes(SubSeq(b, 13, 16))

\* The format! of the 16 bytes of a UUID: groups of 4, 2, 2, 2 and 6 bytes
\* with '-' between them.
format_uuid(b) ==
    hex_bytes(SubSeq(b, 1, 4)) \o <<45>> \o hex_bytes(SubSeq(b, 5, 6))
    \o <<45>> \o hex_bytes(SubSeq(b, 7, 8)) \o <<45>>
    \o hex_bytes(SubSeq(b, 9, 10)) \o <<45>> \o hex_bytes(SubSeq(b, 11, 16))

RECURSIVE long_div(_, _, _, _)
\* Division of the unsigned big-endian bytes bs by d, digit by digit: the
\* bytes of the quotient and the remainder.  r is the remainder and q the
\* quotient of the bytes already divided.
long_div(bs, d, r, q) ==
    IF bs = <<>> THEN [q |-> q, r |-> r]
    ELSE long_div(Tail(bs), d, (r * 256 + bs[1]) % d,
                  Append(q, (r * 256 + bs[1]) \div d))

RECURSIVE increment(_)
\* bs + 1 modulo 256^Len(bs).
increment(bs) ==
    IF bs = <<>> THEN <<>>
    ELSE IF bs[Len(bs)] = 255
    THEN Append(increment(SubSeq(bs, 1, Len(bs) - 1)), 0)
    ELSE Append(SubSeq(bs, 1, Len(bs) - 1), bs[Len(bs)] + 1)

\* The two's complement of bs: -bs modulo 256^Len(bs).
negate(bs) == increment([i \in 1..Len(bs) |-> 255 - bs[i]])

\* `civil::Time::new(hours, minutes, seconds, nsecs)`: an error unless the
\* hour is in 0..23, minute and second in 0..59 and nsecs in 0..999_999_999.
time_new(hours, minutes, seconds, nsecs, binary_data) ==
    IF /\ hours \in 0..23 /\ minutes \in 0..59 /\ seconds \in 0..59
       /\ nsecs >= 0 /\ nsecs <= 999999999
    THEN Ok([tag |-> "Time", h |-> hours, min |-> minutes, s |-> seconds,
             ns |-> nsecs], <<>>)
    ELSE Ok([tag |-> "Unknown", s |-> binary_data, oid |-> PG_TYPE_TIME],
            <<>>)

\* hours, minutes, seconds of `secs`, the u32 whose bytes are secs_bytes:
\* `(secs / 3600) as i8` keeps the low byte of the quotient, as a signed
\* byte.
time_from_secs(h, nsecs, binary_data) ==
    time_new(IF h.q[4] >= 128 THEN h.q[4] - 256 ELSE h.q[4],
             h.r \div 60, h.r % 60, nsecs, binary_data)

\* The arm PG_TYPE_TIME of parse_binary_value on the i64 microsecs whose
\* bytes are binary_data.  `/` and `%` of i64 truncate towards zero, so the
\* magnitude is divided and the sign put back; `as u32` keeps the low four
\* bytes of the quotient.
time_from_micros(binary_data) ==
    IF binary_data[1] >= 128
    THEN time_from_secs(
            long_div(SubSeq(negate(long_div(negate(binary_data), 1000000,
                                            0, <<>>).q), 5, 8),
                     3600, 0, <<>>),
            -(long_div(negate(binary_data), 1000000, 0, <<>>).r * 1000),
            binary_data)
    ELSE time_from_secs(
            long_div(SubSeq(long_div(binary_data, 1000000, 0, <<>>).q, 5, 8),
                     3600, 0, <<>>),
            long_div(binary_data, 1000000, 0, <<>>).r * 1000,
            binary_data)

\* parse_binary_value for the same OIDs: a fixed-width OID whose length does
\* not match falls through to Unknown.
parse_binary_value(binary_data, type_id, len) ==
    CASE type_id = PG_TYPE_BOOL /\ len = 1 ->
            Ok([tag |-> "Boolean", b |-> binary_data[1] # 0], <<>>)
      [] type_id = PG_TYPE_INT2 /\ len = 2 ->
            Ok([tag |-> "Integer",
                i |-> IF binary_data[1] >= 128
                      THEN from_be_bytes(binary_data) - 65536
                      ELSE from_be_bytes(binary_data)], <<>>)
      [] type_id = PG_TYPE_INT4 /\ len = 4 ->
            Ok([tag |-> "Integer", i |-> i32_from_be_bytes(binary_data)], <<>>)
      [] type_id = PG_TYPE_INT8 /\ len = 8 ->
            Ok([tag |-> "BigInt", i |-> i64_from_be_bytes(binary_data)], <<>>)
      [] type_id = PG_TYPE_OID /\ len = 4 ->
            Ok([tag |-> "Integer", i |-> i32_from_be_bytes(binary_data)], <<>>)
      [] type_id = PG_TYPE_UUID /\ len = 16 ->
            Ok([tag |-> "Uuid", s |-> format_uuid(binary_data)], <<>>)
      [] type_id = PG_TYPE_TIME /\ len = 8 ->
            time_from_micros(binary_data)
      [] type_id = PG_TYPE_BYTEA ->
            Ok([tag |-> "Binary", s |-> binary_data], <<>>)
      [] type_id \in {PG_TYPE_TEXT, PG_TYPE_VARCHAR, PG_TYPE_CHAR,
                      PG_TYPE_NAME, PG_TYPE_BPCHAR} ->
            IF is_utf8(binary_data)
            THEN Ok([tag |-> "Text", s |-> binary_data], <<>>)
            ELSE Ok([tag |-> "Binary", s |-> binary_data], <<>>)
      [] type_id \in {PG_TYPE_JSON, PG_TYPE_JSONB} ->
            IF is_utf8(binary_data)
            THEN Ok([tag |-> IF type_id = PG_TYPE_JSON THEN "Json"
                             ELSE "Jsonb", s |-> binary_data], <<>>)
            ELSE Ok([tag |-> "Binary", s |-> binary_data], <<>>)
      [] OTHER ->
            Ok([tag |-> "Unknown", s |-> binary_data, oid |-> type_id], <<>>)

(***************************************************************************)
(* parse_timestamptz.  Texts are ASCII.  A Zoned is the civil date and     *)
(* time as written, the digits of the fraction and the offset in minutes.  *)
(***************************************************************************)
\* The two-digit number at s[i], s[i + 1].
two_digits(s, i) == (s[i] - 48) * 10 + (s[i + 1] - 48)

\* Zoned::strptime("%Y-%m-%d %H:%M:%S%.f%z", text): YYYY-MM-DD HH:MM:SS, an
\* optional '.' with 1 to 9 digits, and the offset as sign and HHMM.
strptime_zoned(text) ==
    LET n == Len(text)
        body == SubSeq(text, 1, n - 5)
        tz == SubSeq(text, n - 4, n)
        civil_ok ==
            /\ \A i \in 1..19 :
                  IF i \in {5, 8} THEN body[i] = 45
                  ELSE IF i = 11 THEN body[i] = 32
                  ELSE IF i \in {14, 17} THEN body[i] = 58
                  ELSE IsDigit(body[i])
            /\ two_digits(body, 6) \in 1..12
            /\ two_digits(body, 9) \in 1..31
            /\ two_digits(body, 12) <= 23
            /\ two_digits(body, 15) <= 59
            /\ two_digits(body, 18) <= 59
        fraction_ok ==
            \/ Len(body) = 19
            \/ /\ Len(body) \in 21..29
               /\ body[20] = 46
               /\ \A i \in 21..Len(body) : IsDigit(body[i])
        tz_ok ==
            /\ tz[1] \in {43, 45}
            /\ \A i \in 2..5 : IsDigit(tz[i])
            /\ two_digits(tz, 2) <= 25
            /\ two_digits(tz, 4) <= 59
    IN  IF n < 24 THEN Err("ParseDateTime")
        ELSE IF Len(body) >= 19 /\ civil_ok /\ fraction_ok /\ tz_ok
        THEN Ok([date_time |-> SubSeq(body, 1, 19),
                 fraction |-> SubSeq(body, 21, Len(body)),
                 offset |-> (IF tz[1] = 45 THEN -1 ELSE 1)
                            * (two_digits(tz, 2) * 60 + two_digits(tz, 4))],
                <<>>)
        ELSE Err("ParseDateTime")

\* `text.rfind(&['+', '-'][..])`: the index of the last sign, 0 for None.
rfind_sign(text) ==
    LET idx == {i \in DOMAIN text : text[i] \in {43, 45}}
    IN  IF idx = {} THEN 0 ELSE CHOOSE i \in idx : \A j \in idx : j <= i

\* `let mut normalized_buf = [0u8; 256]`
NormalizedBufLen == 256

\* What parse_timestamptz writes to normalized_buf for a text with a sign:
\* the main part and the timezone part, "+HH:MM" as "+HHMM", "+HH" as
\* "+HH00", every other timezone part as it is.
normalized_timestamptz(text) ==
    LET tz_part == Drop(text, rfind_sign(text) - 1)
    IN  IF Len(tz_part) = 6 /\ tz_part[4] = 58
        THEN Take(text, rfind_sign(text) - 1)
             \o <<tz_part[1], tz_part[2], tz_part[3], tz_part[5], tz_part[6]>>
        ELSE IF Len(tz_part) = 3
        THEN text \o <<48, 48>>
        ELSE text

\* Whether parse_timestamptz normalises the text: it has 3 bytes at least
\* and a sign.
timestamptz_is_normalized(text) == Len(text) >= 3 /\ rfind_sign(text) # 0

\* The writes to normalized_buf go past its end: an index out of bounds,
\* a panic.
timestamptz_panics(text) ==
    /\ timestamptz_is_normalized(text)
    /\ Len(normalized_timestamptz(text)) > NormalizedBufLen

\* parse_timestamptz of a text that does not make it panic.
parse_timestamptz(text) ==
    IF timestamptz_is_normalized(text)
    THEN strptime_zoned(normalized_timestamptz(text))
    ELSE strptime_zoned(text)

(***************************************************************************)
(* The cursor helpers of Subscriber (read_u8 .. read_string).              *)
(***************************************************************************)
read_u8(data) ==
    IF data = <<>> THEN Err("UnexpectedEndOfData")
    ELSE Ok(data[1], Drop(data, 1))

read_u16(data) ==
    IF Len(data) < 2 THEN Err("UnexpectedEndOfData")
    ELSE Ok(u16_from_be_bytes(Take(data, 2)), Drop(data, 2))

read_u32(data) ==
    IF Len(data) < 4 THEN Err("UnexpectedEndOfData")
    ELSE Ok(u32_from_be_bytes(Take(data, 4)), Drop(data, 4))

read_i32(data) ==
    IF Len(data) < 4 THEN Err("UnexpectedEndOfData")
    ELSE Ok(i32_from_be_bytes(Take(data, 4)), Drop(data, 4))

read_lsn(data) ==
    IF Len(data) < 8 THEN Err("UnexpectedEndOfData")
    ELSE Ok(u64_from_be_bytes(Take(data, 8)), Drop(data, 8))

read_u64_from_slice(data) ==
    IF Len(data) < 8 THEN Err("UnexpectedEndOfData")
    ELSE Ok(u64_from_be_bytes(Take(data, 8)), <<>>)

\* String::from_utf8_lossy: every invalid byte becomes U+FFFD (EF BF BD).
RECURSIVE from_utf8_lossy(_)
from_utf8_lossy(bs) ==
    IF bs = <<>> THEN <<>>
    ELSE (IF bs[1] < 128 THEN <<bs[1]>> ELSE <<239, 191, 189>>)
         \o from_utf8_lossy(Drop(bs, 1))

\* read_string: the bytes up to the first NUL, which must exist.
read_string(data) ==
    LET nul == {i \in 1..Len(data) : data[i] = 0}
    IN  IF nul = {} THEN Err("UnterminatedString")
        ELSE LET len == (CHOOSE i \in nul : \A j \in nul : i <= j) - 1
                 raw == Take(data, len)
             IN  Ok(IF is_utf8(raw) THEN raw ELSE from_utf8_lossy(raw),
                    Drop(data, len + 1))

(***************************************************************************)
(* Subscriber::read_tuple_data.                                            *)
(***************************************************************************)
NoneV == [tag |-> "None"]
Some(v) == [tag |-> "Some", v |-> v]

\* A variant that falls back to JSON instead of TEXT.
column_type_id_FallbackJson(cache, relation_id, i) ==
    IF relation_id \in DOMAIN cache /\ i < Len(cache[relation_id].columns)
    THEN cache[relation_id].columns[i + 1].type_id
    ELSE PG_TYPE_JSON

\* A variant that takes the type of the first cached column for every field.
column_type_id_FirstColumn(cache, relation_id, i) ==
    IF relation_id \in DOMAIN cache /\ cache[relation_id].columns # <<>>
    THEN cache[relation_id].columns[1].type_id
    ELSE PG_TYPE_TEXT

\* The type OID of column i (0-based) of relation_id: the cached column's
\* type_id, TEXT when the relation or the column is not cached.
column_type_id(cache, relation_id, i) ==
    IF relation_id \in DOMAIN cache
    THEN IF i < Len(cache[relation_id].columns)
         THEN cache[relation_id].columns[i + 1].type_id
         ELSE PG_TYPE_TEXT
    ELSE PG_TYPE_TEXT

\* A text field ('t') of `len` bytes: UTF-8, then parse_text_value.
tuple_text_value(v, after) ==
    IF v.ok THEN Ok(Some(v.value), after) ELSE v

\* A variant that does not check the UTF-8 encoding of a text field.
text_field_value_Unchecked(raw, after, type_id) ==
    tuple_text_value(parse_text_value(raw, type_id), after)

text_field_value(raw, after, type_id) ==
    IF ~is_utf8(raw) THEN Err("Utf8")
    ELSE tuple_text_value(parse_text_value(raw, type_id), after)

\* A binary field ('b'): parse_binary_value, Binary(raw) should it fail.
binary_field_value(v, raw, after) ==
    Ok(Some(IF v.ok THEN v.value ELSE [tag |-> "Binary", s |-> raw]), after)

\* The field after its format byte and be32 length.
field_after_len(format_byte, l, type_id) ==
    IF ~l.ok THEN l
    ELSE IF l.value < 0 THEN Ok(NoneV, l.rest)
    ELSE IF Len(l.rest) < l.value THEN Err("UnexpectedEndOfData")
    ELSE IF format_byte = Byte_t
    THEN text_field_value(Take(l.rest, l.value), Drop(l.rest, l.value),
                          type_id)
    ELSE binary_field_value(
            parse_binary_value(Take(l.rest, l.value), type_id, l.value),
            Take(l.rest, l.value), Drop(l.rest, l.value))

\* A variant that accepts the format bytes 't', 'b' and 'n' alone.
field_after_format_Strict(f, type_id) ==
    IF ~f.ok THEN f
    ELSE IF f.value \in {Byte_t, Byte_b}
    THEN field_after_len(f.value, read_i32(f.rest), type_id)
    ELSE IF f.value = Byte_n THEN Ok(NoneV, f.rest)
    ELSE Err("UnexpectedEndOfData")

\* The field after its format byte f: 't' and 'b' carry a length and a
\* value, every other byte is a NULL.
field_after_format(f, type_id) ==
    IF ~f.ok THEN f
    ELSE IF f.value \in {Byte_t, Byte_b}
    THEN field_after_len(f.value, read_i32(f.rest), type_id)
    ELSE Ok(NoneV, f.rest)

\* One field of a tuple.
read_tuple_field(data, type_id) == field_after_format(read_u8(data), type_id)

\* `tuple_data.push(..)` / `columns.push(..)` after a successful read.
push_field(so_far, r) ==
    IF ~r.ok THEN r ELSE Ok(Append(so_far, r.value), r.rest)

RECURSIVE read_tuple_fields(_, _, _, _, _)
\* The loop `for i in 0..column_count` of read_tuple_data; acc holds the
\* tuple read so far and the unread data.
read_tuple_fields(acc, cache, relation_id, i, column_count) ==
    IF ~acc.ok THEN acc
    ELSE IF i >= column_count THEN acc
    ELSE read_tuple_fields(
            push_field(acc.value,
                       read_tuple_field(acc.rest,
                                        column_type_id(cache, relation_id, i))),
            cache, relation_id, i + 1, column_count)

\* A variant that takes the count from the cached relation.
tuple_column_count_FromCache(cache, relation_id, on_wire) ==
    IF relation_id \in DOMAIN cache THEN Len(cache[relation_id].columns)
    ELSE on_wire

\* The column count of a tuple: the one its data carries.
tuple_column_count(cache, relation_id, on_wire) == on_wire

tuple_after_count(c, cache, relation_id) ==
    IF ~c.ok THEN c
    ELSE read_tuple_fields(Ok(<<>>, c.rest), cache, relation_id, 0,
                           tuple_column_count(cache, relation_id, c.value))

\* The optional 'N' marker in front of a tuple.
skip_N(data) ==
    IF data # <<>> /\ data[1] = Byte_N THEN Drop(data, 1) ELSE data

read_tuple_data(data, cache, relation_id) ==
    tuple_after_count(read_u16(skip_N(data)), cache, relation_id)

(***************************************************************************)
(* Subscriber::parse_wal_data.                                             *)
(***************************************************************************)
\* One column of a Relation message: flags, name, type OID, type modifier.
column_finish(flags, name, type_id, type_modifier) ==
    IF ~type_modifier.ok THEN type_modifier
    ELSE Ok([name |-> name, type_id |-> type_id,
             type_modifier |-> type_modifier.value, flags |-> flags],
            type_modifier.rest)

column_after_name(flags, name, type_id) ==
    IF ~type_id.ok THEN type_id
    ELSE column_finish(flags, name, type_id.value, read_i32(type_id.rest))

column_after_flags(flags, name) ==
    IF ~name.ok THEN name
    ELSE column_after_name(flags, name.value, read_u32(name.rest))

read_column(flags) ==
    IF ~flags.ok THEN flags
    ELSE column_after_flags(flags.value, read_string(flags.rest))

RECURSIVE read_columns(_, _)
\* The loop `for _ in 0..column_count` of the Relation arm; acc holds the
\* columns read so far and the unread data.
read_columns(acc, n) ==
    IF ~acc.ok THEN acc
    ELSE IF n = 0 THEN acc
    ELSE read_columns(push_field(acc.value, read_column(read_u8(acc.rest))),
                      n - 1)

relation_finish(id, namespace, name, replica_identity, cs) ==
    IF ~cs.ok THEN cs
    ELSE Ok([type |-> "Relation", id |-> id, namespace |-> namespace,
             name |-> name, replica_identity |-> replica_identity,
             columns |-> cs.value], cs.rest)

relation_after_ri(id, namespace, name, replica_identity, n) ==
    IF ~n.ok THEN n
    ELSE relation_finish(id, namespace, name, replica_identity,
                         read_columns(Ok(<<>>, n.rest), n.value))

relation_after_name(id, namespace, name, ri) ==
    IF ~ri.ok THEN ri
    ELSE relation_after_ri(id, namespace, name, ri.value, read_u16(ri.rest))

relation_after_namespace(id, namespace, name) ==
    IF ~name.ok THEN name
    ELSE relation_after_name(id, namespace, name.value, read_u8(name.rest))

relation_after_id(id, namespace) ==
    IF ~namespace.ok THEN namespace
    ELSE relation_after_namespace(id, namespace.value,
                                  read_string(namespace.rest))

\* The arm b'R'.
parse_relation(id) ==
    IF ~id.ok THEN id
    ELSE relation_after_id(id.value, read_string(id.rest))

insert_finish(relation_id, t) ==
    IF ~t.ok THEN t
    ELSE Ok([type |-> "Insert", relation_id |-> relation_id,
             tuple_data |-> t.value], t.rest)

\* The arm b'I'.
parse_insert(relation_id, cache) ==
    IF ~relation_id.ok THEN relation_id
    ELSE insert_finish(relation_id.value,
                       read_tuple_data(skip_N(relation_id.rest), cache,
                                       relation_id.value))

update_finish(relation_id, old_tuple_data, new) ==
    IF ~new.ok THEN new
    ELSE Ok([type |-> "Update", relation_id |-> relation_id,
             old_tuple_data |-> old_tuple_data,
             new_tuple_data |-> new.value], new.rest)

update_after_old(relation_id, has_old_tuple, old, cache) ==
    IF ~old.ok THEN old
    ELSE update_finish(relation_id,
                       IF has_old_tuple THEN Some(old.value) ELSE NoneV,
                       read_tuple_data(old.rest, cache, relation_id))

\* A variant that leaves a byte other than 'O' in front of the new tuple.
update_after_flag_Peek(relation_id, o, cache) ==
    IF ~o.ok THEN o
    ELSE update_after_old(relation_id, o.value = Byte_O,
                          IF o.value = Byte_O
                          THEN read_tuple_data(o.rest, cache, relation_id)
                          ELSE Ok(NoneV, <<o.value>> \o o.rest),
                          cache)

\* The byte after relation_id: 'O' announces the old tuple, any other byte
\* is dropped.
update_after_flag(relation_id, o, cache) ==
    IF ~o.ok THEN o
    ELSE update_after_old(relation_id, o.value = Byte_O,
                          IF o.value = Byte_O
                          THEN read_tuple_data(o.rest, cache, relation_id)
                          ELSE Ok(NoneV, o.rest),
                          cache)

\* The arm b'U'.
parse_update(relation_id, cache) ==
    IF ~relation_id.ok THEN relation_id
    ELSE update_after_flag(relation_id.value, read_u8(relation_id.rest), cache)

delete_finish(relation_id, has_old_tuple, old) ==
    IF ~old.ok THEN old
    ELSE Ok([type |-> "Delete", relation_id |-> relation_id,
             old_tuple_data |->
                IF has_old_tuple THEN Some(old.value) ELSE NoneV], old.rest)

delete_after_flag(relation_id, o, cache) ==
    IF ~o.ok THEN o
    ELSE delete_finish(relation_id, o.value = Byte_O,
                       IF o.value = Byte_O
                       THEN read_tuple_data(o.rest, cache, relation_id)
                       ELSE Ok(NoneV, o.rest))

\* The arm b'D'.
parse_delete(relation_id, cache) ==
    IF ~relation_id.ok THEN relation_id
    ELSE delete_after_flag(relation_id.value, read_u8(relation_id.rest), cache)

\* The arms b'B' and b'C'.
\* A variant that reports LSN 0 when the LSN cannot be read.
parse_lsn_message_Lenient(type, lsn) ==
    IF ~lsn.ok THEN Ok([type |-> type, lsn |-> 0], <<>>)
    ELSE Ok([type |-> type, lsn |-> lsn.value], lsn.rest)

parse_lsn_message(type, lsn) ==
    IF ~lsn.ok THEN lsn ELSE Ok([type |-> type, lsn |-> lsn.value], lsn.rest)

wal_data_arm(message_type, body, cache) ==
    CASE message_type = Byte_B -> parse_lsn_message("Begin", read_lsn(body))
      [] message_type = Byte_C -> parse_lsn_message("Commit", read_lsn(body))
      [] message_type = Byte_I -> parse_insert(read_u32(body), cache)
      [] message_type = Byte_U -> parse_update(read_u32(body), cache)
      [] message_type = Byte_D -> parse_delete(read_u32(body), cache)
      [] message_type = Byte_R -> parse_relation(read_u32(body))
      [] OTHER -> Ok([type |-> "Unknown", byte |-> message_type], body)

parse_wal_data(data, cache) ==
    IF data = <<>> THEN Err("EmptyWalData")
    ELSE wal_data_arm(data[1], Drop(data, 1), cache)

(***************************************************************************)
(* ErrorResponse fields, error values, the startup packet and the password *)
(* messages of Connection (conn.rs), the query of Subscriber (sub.rs).     *)
(***************************************************************************)
Byte_M == 77
Byte_S == 83
Byte_K == 75
Byte_Z == 90
Byte_p == 112
Byte_Q == 81
Byte_W == 87

\* The index of the first NUL of bs, Len(bs) + 1 when bs has none.
nul_index(bs) ==
    IF \E i \in 1..Len(bs) : bs[i] = 0
    THEN CHOOSE i \in 1..Len(bs) : bs[i] = 0 /\ \A j \in 1..(i - 1) : bs[j] # 0
    ELSE Len(bs) + 1

\* The `match field_type` of parse_error_message on one field: 'M' replaces
\* the text, 'S' puts "{value}: " in front of it, a field that is not UTF-8
\* or of another type leaves it.
error_field(field_type, value, error_message) ==
    IF ~is_utf8(value) THEN error_message
    ELSE IF field_type = Byte_M THEN value
    ELSE IF field_type = Byte_S THEN value \o <<58, 32>> \o error_message
    ELSE error_message

RECURSIVE error_fields(_, _)
\* The loop `while i < data.len()` of parse_error_message over the fields
\* not yet read.
error_fields(data, error_message) ==
    IF data = <<>> THEN error_message
    ELSE IF data[1] = 0 THEN error_message
    ELSE error_fields(
            Drop(data, nul_index(Drop(data, 1)) + 1),
            error_field(data[1],
                        Take(Drop(data, 1), nul_index(Drop(data, 1)) - 1),
                        error_message))

\* Connection::parse_error_message
parse_error_message(data) == Ok(error_fields(data, <<>>), <<>>)

\* A variant that rejects every payload.
parse_pg_error_message_Fails(data) == Err("InvalidErrorResponse")

\* parse_pg_error_message of sub.rs, the same code.
parse_pg_error_message(data) == Ok(error_fields(data, <<>>), <<>>)

RECURSIVE neg_digits(_)
\* The decimal digits of -m, for m <= 0.
neg_digits(m) ==
    IF m = 0 THEN <<>>
    ELSE neg_digits((m + ((10 - (m % 10)) % 10)) \div 10)
         \o <<48 + ((10 - (m % 10)) % 10)>>

\* format!("{}", n) of an i32.
format_i32(n) ==
    IF n = 0 THEN <<48>>
    ELSE IF n < 0 THEN <<45>> \o neg_digits(n)
    ELSE neg_digits(0 - n)

\* format!("{}", b as char) of a u8: the UTF-8 encoding of U+0000..U+00FF.
format_char(b) ==
    IF b < 128 THEN <<b>> ELSE <<192 + (b \div 64), 128 + (b % 64)>>

\* An Error value that carries a text, and the ones that carry none.
ErrorWith(name, text) == [name |-> name, text |-> text]

\* "Unsupported authentication method: "
UnsupportedMethodText ==
    <<85, 110, 115, 117, 112, 112, 111, 114, 116, 101, 100, 32, 97, 117, 116,
      104, 101, 110, 116, 105, 99, 97, 116, 105, 111, 110, 32, 109, 101, 116,
      104, 111, 100, 58, 32>>

\* "Unexpected message type during authentication: "
UnexpectedTypeText ==
    <<85, 110, 101, 120, 112, 101, 99, 116, 101, 100, 32, 109, 101, 115, 115,
      97, 103, 101, 32, 116, 121, 112, 101, 32, 100, 117, 114, 105, 110, 103,
      32, 97, 117, 116, 104, 101, 110, 116, 105, 99, 97, 116, 105, 111, 110,
      58, 32>>

\* Protocol version 3.0.
ProtocolVersion == 196608

\* Connection::write_string_param
write_string_param(packet, name, value) ==
    packet \o name \o <<0>> \o value \o <<0>>

\* The parameters "user", "database" and "replication" = "database".
startup_parameters(user, database) ==
    write_string_param(
        write_string_param(
            write_string_param(i32_to_be_bytes(ProtocolVersion),
                               <<117, 115, 101, 114>>, user),
            <<100, 97, 116, 97, 98, 97, 115, 101>>, database),
        <<114, 101, 112, 108, 105, 99, 97, 116, 105, 111, 110>>,
        <<100, 97, 116, 97, 98, 97, 115, 101>>)

\* Connection::send_startup_message: the length, which counts itself, the
\* parameters and the closing NUL.
send_startup_message(user, database) ==
    i32_to_be_bytes(Len(startup_parameters(user, database)) + 5)
    \o startup_parameters(user, database) \o <<0>>

RECURSIVE byte_sum(_)
byte_sum(bs) == IF bs = <<>> THEN 0 ELSE bs[1] + byte_sum(Drop(bs, 1))

\* format!("{:x}", md5(bs)): 32 lower-case hex digits that depend on bs.  The
\* digest of the md5 crate is replaced by a checksum; only its shape and its
\* dependence on the input are kept.
md5_hex(bs) ==
    [i \in 1..32 |-> hex_digit((byte_sum(bs) + i * (Len(bs) + 1)) % 16)]

\* Connection::compute_md5_password: "md5" + hex(md5(hex(md5(password + user))
\* + salt)).
compute_md5_password(password, username, salt) ==
    <<109, 100, 53>> \o md5_hex(md5_hex(password \o username) \o salt)

\* Connection::send_password_message
send_password_message(password) ==
    write_message(Byte_p, password \o <<0>>, FALSE)

(***************************************************************************)
(* Subscriber::send_standby_status_update and the streaming loop of next.  *)
(***************************************************************************)
StatusInterval == 10    \* seconds between two standby status updates

\* jiff::Zoned::now() in microseconds since 2000-01-01: the wall clock reads
\* the PostgreSQL epoch when the monotonic clock reads 0.
pg_time(t) == t * 1000000

\* A variant that reports the flush position as 0.
standby_status_payload_FlushZero(lsn, t) ==
    u64_to_be_bytes(lsn) \o u64_to_be_bytes(0) \o u64_to_be_bytes(0)
    \o i64_to_be_bytes(pg_time(t)) \o <<0>>

\* The payload of a standby status update.
standby_status_payload(lsn, t) ==
    u64_to_be_bytes(lsn) \o u64_to_be_bytes(lsn) \o u64_to_be_bytes(lsn)
    \o i64_to_be_bytes(pg_time(t)) \o <<0>>

\* A variant that writes the update outside a CopyData envelope.
send_standby_status_update_Plain(lsn, t) ==
    write_message(Byte_r, standby_status_payload(lsn, t), FALSE)

\* What send_standby_status_update hands to the transport.
send_standby_status_update(lsn, t) ==
    write_message(Byte_r, standby_status_payload(lsn, t), TRUE)

\* A variant that lets two intervals pass.
status_update_due_Twice(t, last) == t - last >= 2 * StatusInterval

\* A variant that waits for more than the interval.
status_update_due_Strict(t, last) == t - last > StatusInterval

\* `self.last_status_update.elapsed().as_secs() >= 10`
status_update_due(t, last) == t - last >= StatusInterval

\* A variant that takes every wal_end, also a lower one.
advance_lsn_Overwrite(last, wal_end) == wal_end

\* `if wal_end > self.last_received_lsn { self.last_received_lsn = wal_end }`
advance_lsn(last, wal_end) == IF wal_end > last THEN wal_end ELSE last

\* A variant that swallows TimedOut only.
is_transient_OnlyTimedOut(kind) == kind = TimedOut

\* The error kinds of a failed read that next swallows.
is_transient(kind) == kind \in {WouldBlock, TimedOut}

\* A variant that keeps an entry already cached.
cache_insert_KeepFirst(cache, m) ==
    IF m.id \in DOMAIN cache THEN cache
    ELSE [i \in DOMAIN cache \cup {m.id} |->
            IF i = m.id
            THEN [namespace |-> m.namespace, name |-> m.name,
                  columns |-> m.columns,
                  replica_identity |-> m.replica_identity]
            ELSE cache[i]]

\* relation_cache.insert(id, RelationInfo {..}) for a Relation message.
cache_insert(cache, m) ==
    [i \in DOMAIN cache \cup {m.id} |->
        IF i = m.id
        THEN [namespace |-> m.namespace, name |-> m.name,
              columns |-> m.columns, replica_identity |-> m.replica_identity]
        ELSE cache[i]]

\* Whether inserting the Relation message m replaces a different entry.
Overwrites(cache, m) ==
    m.id \in DOMAIN cache /\ cache[m.id] # cache_insert(cache, m)[m.id]

\* A variant that never replies.
reply_required_Never(data) == FALSE

\* `message.data[16] != 0`: the server asks for a reply.
reply_required(data) == data[17] # 0

\* A variant that starts the payload at the server time.
wal_payload_KeepServerTime(data) == Drop(data, 16)

\* `&message.data[24..]`: the pgoutput payload of a WAL-data message.
wal_payload(data) == Drop(data, 24)

\* Subscriber::relation_info
relation_info(cache, relation_id) ==
    IF relation_id \in DOMAIN cache THEN Some(cache[relation_id]) ELSE NoneV

EmptyCache == [i \in {} |-> 0]

NoResult == [kind |-> "none"]
OkResult(m) == [kind |-> "ok", msg |-> m]
ErrResult(e) == [kind |-> "err", err |-> e]
IoError(kind) == IF kind = WouldBlock THEN "Io(WouldBlock)"
                 ELSE IF kind = TimedOut THEN "Io(TimedOut)"
                 ELSE IF kind = UnexpectedEof THEN "Io(UnexpectedEof)"
                 ELSE "Io(Other)"

BoundedSeq(S, n) == UNION {[1..k -> S] : k \in 0..n}

(***************************************************************************)
(* SpecFrame: one write_message followed by one read_message with the same *)
(* copy_data flag, over every type byte and payload of the bounded sets;   *)
(* the transport may end inside the frame before it is read.               *)
(***************************************************************************)
FrameTypes == {0, Byte_d, Byte_k, Byte_r, 255}
FrameBytes == {0, Byte_d, 255}
FrameTrails == {<<>>, <<Byte_d>>, <<Byte_k, 0>>}

SubIdle ==
    /\ pc = "off"
    /\ inbound = <<>>
    /\ wrote = <<>>
    /\ relation_cache = EmptyCache
    /\ last_received_lsn = 0
    /\ last_status_update = 0
    /\ now = 0
    /\ result = NoResult
    /\ message = [status |-> "none"]
    /\ accepted = {}
    /\ replaced = FALSE

FrameInit ==
    /\ f_pc = "start"
    /\ f_type \in FrameTypes
    /\ f_data \in BoundedSeq(FrameBytes, MaxPayload)
    /\ f_copy \in BOOLEAN
    /\ f_trail \in FrameTrails
    /\ f_wire = <<>>
    /\ f_msg = [status |-> "none"]
    /\ SubIdle

\* write_message(f_type, f_data, f_copy); the peer's later bytes follow.
FrameWrite ==
    /\ f_pc = "start"
    /\ f_wire' = write_message(f_type, f_data, f_copy) \o f_trail
    /\ f_pc' = "written"
    /\ UNCHANGED <<f_type, f_data, f_copy, f_trail, f_msg>>
    /\ UNCHANGED subVars

\* read_message(f_copy) on what was written.
FrameRead ==
    /\ f_pc = "written"
    /\ LET r == read_message(f_wire, f_copy)
       IN  /\ r.status # "blocked"
           /\ f_msg' = [status |-> r.status, msg |-> r.msg]
           /\ f_wire' = r.rest
    /\ f_pc' = "read"
    /\ UNCHANGED <<f_type, f_data, f_copy, f_trail>>
    /\ UNCHANGED subVars

\* The transport ends after n bytes of the frame: every later read fails
\* with the io error UnexpectedEof, as read_exact does at end of stream.
FrameCut ==
    /\ f_pc = "written"
    /\ \E n \in 0..(Len(write_message(f_type, f_data, f_copy)) - 1) :
          f_wire' = Take(f_wire, n) \o <<UnexpectedEof>>
    /\ f_pc' = "cut"
    /\ UNCHANGED <<f_type, f_data, f_copy, f_trail, f_msg>>
    /\ UNCHANGED subVars

\* read_message(f_copy) on the frame cut short; `error` is the Error the
\* `?` of read_message makes of the io error.
FrameReadShort ==
    /\ f_pc = "cut"
    /\ LET r == read_message(f_wire, f_copy)
       IN  /\ r.status # "blocked"
           /\ f_msg' = [status |-> r.status, msg |-> r.msg,
                        error |-> IF r.status = "io" THEN IoError(r.kind)
                                  ELSE ""]
           /\ f_wire' = r.rest
    /\ f_pc' = "short"
    /\ UNCHANGED <<f_type, f_data, f_copy, f_trail>>
    /\ UNCHANGED subVars

\* read_message with the other copy_data flag than the frame was written
\* with: a plain frame read in copy mode, a CopyData frame read outside it.
FrameReadOther ==
    /\ f_pc = "written"
    /\ LET r == read_message(f_wire, ~f_copy)
       IN  /\ r.status # "blocked"
           /\ f_msg' = [status |-> r.status, msg |-> r.msg]
           /\ f_wire' = r.rest
    /\ f_pc' = "crossed"
    /\ UNCHANGED <<f_type, f_data, f_copy, f_trail>>
    /\ UNCHANGED subVars

FrameNext ==
    \/ FrameWrite
    \/ FrameRead
    \/ FrameCut
    \/ FrameReadShort
    \/ FrameReadOther

SpecFrame == FrameInit /\ [][FrameNext]_vars

(***************************************************************************)
(* Spec: the streaming phase of a Subscriber.  The server sends frames     *)
(* and the transport reports time-outs and failures; the caller calls      *)
(* next again and again.                                                   *)
(***************************************************************************)
\* A frame as the server sends it inside CopyBoth: a CopyData envelope.
CopyDataFrame(message_type, payload) ==
    <<Byte_d>> \o i32_to_be_bytes(Len(payload) + 5) \o <<message_type>>
    \o payload

\* A frame sent outside any envelope.
PlainFrame(message_type, payload) ==
    <<message_type>> \o i32_to_be_bytes(Len(payload) + 4) \o payload

Keepalive(wal_end, reply) ==
    CopyDataFrame(Byte_k, u64_to_be_bytes(wal_end) \o i64_to_be_bytes(0)
                          \o <<reply>>)

XLogData(wal_end, pgoutput) ==
    CopyDataFrame(Byte_w, u64_to_be_bytes(0) \o u64_to_be_bytes(wal_end)
                          \o i64_to_be_bytes(0) \o pgoutput)

CString(bs) == bs \o <<0>>
ColumnBytes(flags, name, type_id) ==
    <<flags>> \o CString(name) \o to_be_bytes(type_id, 4)
    \o i32_to_be_bytes(-1)
TextField(bs) == <<Byte_t>> \o i32_to_be_bytes(Len(bs)) \o bs
BinaryField(bs) == <<Byte_b>> \o i32_to_be_bytes(Len(bs)) \o bs

\* The be32 relation id 1 the change messages carry.
RelId == <<0, 0, 0, 1>>

\* Relation 1 with the columns (a int4 key, b text).
RelationA ==
    <<Byte_R>> \o RelId \o CString(<<112>>) \o CString(<<116>>)
    \o <<Byte_d>> \o to_be_bytes(2, 2)
    \o ColumnBytes(1, <<97>>, PG_TYPE_INT4)
    \o ColumnBytes(0, <<98>>, PG_TYPE_TEXT)

\* Relation 1 again, after a schema change: the single column (a int4).
RelationB ==
    <<Byte_R>> \o RelId \o CString(<<112>>) \o CString(<<116>>)
    \o <<Byte_d>> \o to_be_bytes(1, 2)
    \o ColumnBytes(1, <<97>>, PG_TYPE_INT4)

\* Insert into relation 1 of the tuple ('7', 'x'), both in text format.
InsertTwo ==
    <<Byte_I>> \o RelId \o <<Byte_N>> \o to_be_bytes(2, 2)
    \o TextField(<<55>>) \o TextField(<<120>>)

\* Update of relation 1: old tuple ('t'), new tuple (binary 01).
UpdateOne ==
    <<Byte_U>> \o RelId
    \o <<Byte_O>> \o to_be_bytes(1, 2) \o TextField(<<116>>)
    \o <<Byte_N>> \o to_be_bytes(1, 2) \o BinaryField(<<1>>)

\* Delete from relation 1 with a key tuple, which the decoder does not read.
DeleteKey ==
    <<Byte_D>> \o RelId \o <<75>> \o to_be_bytes(1, 2)
    \o <<Byte_n>>

\* The frames the server may send.
Catalogue ==
    { Keepalive(5, 0),
      Keepalive(3, 1),
      CopyDataFrame(Byte_k, u64_to_be_bytes(5) \o i64_to_be_bytes(0)),
      XLogData(4, <<Byte_B>> \o u64_to_be_bytes(4)),
      XLogData(5, <<Byte_C>> \o u64_to_be_bytes(5)),
      XLogData(4, RelationA),
      XLogData(4, RelationB),
      XLogData(4, InsertTwo),
      XLogData(3, UpdateOne),
      XLogData(4, DeleteKey),
      XLogData(4, <<84>>),
      CopyDataFrame(Byte_w, u64_to_be_bytes(0) \o u64_to_be_bytes(5)
                            \o i64_to_be_bytes(0)),
      XLogData(5, <<Byte_B, 0, 0>>),
      PlainFrame(Byte_E, <<83, 69, 0, 77, 120, 0, 0>>),
      PlainFrame(99, <<>>) }

Markers == {WouldBlock, TimedOut, UnexpectedEof, ConnectionReset}

FrameOff ==
    /\ f_pc = "off"
    /\ f_type = 0
    /\ f_data = <<>>
    /\ f_copy = FALSE
    /\ f_trail = <<>>
    /\ f_wire = <<>>
    /\ f_msg = [status |-> "none"]

\* The state Subscriber::new leaves: an empty cache, LSN 0, the timer set.
Init ==
    /\ pc = "idle"
    /\ inbound = <<>>
    /\ wrote = <<>>
    /\ relation_cache = EmptyCache
    /\ last_received_lsn = 0
    /\ last_status_update = 0
    /\ now = 0
    /\ result = NoResult
    /\ message = [status |-> "none"]
    /\ accepted = {}
    /\ replaced = FALSE
    /\ FrameOff

\* The server sends one frame.
ServerSend ==
    /\ Len(inbound) <= MaxBacklog
    /\ \E frame \in Catalogue : inbound' = inbound \o frame
    /\ UNCHANGED <<pc, wrote, relation_cache, last_received_lsn,
                   last_status_update, now, result, message, accepted,
                   replaced>>
    /\ UNCHANGED frameVars

\* The transport has nothing to deliver: the pending read will fail.
TransportFail ==
    /\ Len(inbound) <= MaxBacklog
    /\ \E m \in Markers : inbound' = Append(inbound, m)
    /\ UNCHANGED <<pc, wrote, relation_cache, last_received_lsn,
                   last_status_update, now, result, message, accepted,
                   replaced>>
    /\ UNCHANGED frameVars

\* Time passes while the caller is outside next or blocked in a read.
Tick ==
    /\ pc \in {"idle", "read"}
    /\ now + TickStep <= MaxTime
    /\ now' = now + TickStep
    /\ UNCHANGED <<pc, inbound, wrote, relation_cache, last_received_lsn,
                   last_status_update, result, message, accepted, replaced>>
    /\ UNCHANGED frameVars

\* The caller calls next.
CallNext ==
    /\ pc = "idle"
    /\ pc' = "loop"
    /\ result' = NoResult
    /\ wrote' = <<>>
    /\ UNCHANGED <<inbound, relation_cache, last_received_lsn,
                   last_status_update, now, message, accepted, replaced>>
    /\ UNCHANGED frameVars

\* The top of the loop: the standby status update that is due.  write_all
\* succeeds or fails.
Housekeeping ==
    /\ pc = "loop"
    /\ IF status_update_due(now, last_status_update)
       THEN \E written \in BOOLEAN :
                IF written
                THEN /\ wrote' = <<send_standby_status_update(
                                        last_received_lsn, now)>>
                     /\ last_status_update' = now
                     /\ pc' = "read"
                     /\ result' = result
                ELSE /\ wrote' = <<>>
                     /\ last_status_update' = last_status_update
                     /\ pc' = "idle"
                     /\ result' = ErrResult("Io(Write)")
       ELSE /\ wrote' = <<>>
            /\ pc' = "read"
            /\ UNCHANGED <<last_status_update, result>>
    /\ UNCHANGED <<inbound, relation_cache, last_received_lsn, now, message,
                   accepted, replaced>>
    /\ UNCHANGED frameVars

\* A variant that takes wal_end from a keepalive of 8 to 16 bytes as well.
HandleKeepalive_ShortAdvances(data, written) ==
    IF Len(data) >= 17
    THEN LET wal_end == read_u64_from_slice(SubSeq(data, 1, 8)).value
             lsn == advance_lsn(last_received_lsn, wal_end)
         IN  /\ last_received_lsn' = lsn
             /\ accepted' = accepted \cup {wal_end}
             /\ IF reply_required(data)
                THEN IF written
                     THEN /\ wrote' = <<send_standby_status_update(lsn, now)>>
                          /\ last_status_update' = now
                          /\ pc' = "loop"
                          /\ result' = result
                     ELSE /\ wrote' = <<>>
                          /\ last_status_update' = last_status_update
                          /\ pc' = "idle"
                          /\ result' = ErrResult("Io(Write)")
                ELSE /\ wrote' = <<>>
                     /\ pc' = "loop"
                     /\ UNCHANGED <<last_status_update, result>>
             /\ UNCHANGED <<relation_cache, replaced>>
    ELSE /\ wrote' = <<>>
         /\ pc' = "loop"
         /\ last_received_lsn' =
                IF Len(data) >= 8
                THEN advance_lsn(last_received_lsn,
                         read_u64_from_slice(SubSeq(data, 1, 8)).value)
                ELSE last_received_lsn
         /\ UNCHANGED <<accepted, last_status_update,
                        result, relation_cache, replaced>>

\* The arm b'k' of next.
HandleKeepalive(data, written) ==
    IF Len(data) >= 17
    THEN LET wal_end == read_u64_from_slice(SubSeq(data, 1, 8)).value
             lsn == advance_lsn(last_received_lsn, wal_end)
         IN  /\ last_received_lsn' = lsn
             /\ accepted' = accepted \cup {wal_end}
             /\ IF reply_required(data)
                THEN IF written
                     THEN /\ wrote' = <<send_standby_status_update(lsn, now)>>
                          /\ last_status_update' = now
                          /\ pc' = "loop"
                          /\ result' = result
                     ELSE /\ wrote' = <<>>
                          /\ last_status_update' = last_status_update
                          /\ pc' = "idle"
                          /\ result' = ErrResult("Io(Write)")
                ELSE /\ wrote' = <<>>
                     /\ pc' = "loop"
                     /\ UNCHANGED <<last_status_update, result>>
             /\ UNCHANGED <<relation_cache, replaced>>
    ELSE /\ wrote' = <<>>
         /\ pc' = "loop"
         /\ UNCHANGED <<last_received_lsn, accepted, last_status_update,
                        result, relation_cache, replaced>>

\* A variant that empties relation_cache when the payload fails to decode.
HandleWalData_ForgetsOnError(data) ==
    IF Len(data) > 24
    THEN LET wal_end == read_u64_from_slice(SubSeq(data, 9, 16)).value
             wal_message == parse_wal_data(wal_payload(data), relation_cache)
         IN  /\ last_received_lsn' = advance_lsn(last_received_lsn, wal_end)
             /\ accepted' = accepted \cup {wal_end}
             /\ IF wal_message.ok
                THEN /\ relation_cache' =
                            IF wal_message.value.type = "Relation"
                            THEN cache_insert(relation_cache,
                                              wal_message.value)
                            ELSE relation_cache
                     /\ replaced' =
                            IF wal_message.value.type = "Relation"
                            THEN Overwrites(relation_cache, wal_message.value)
                            ELSE replaced
                     /\ result' = OkResult(wal_message.value)
                ELSE /\ relation_cache' = EmptyCache
                     /\ UNCHANGED replaced
                     /\ result' = ErrResult(wal_message.err)
             /\ pc' = "idle"
             /\ wrote' = <<>>
             /\ UNCHANGED last_status_update
    ELSE /\ wrote' = <<>>
         /\ pc' = "loop"
         /\ UNCHANGED <<last_received_lsn, accepted, last_status_update,
                        result, relation_cache, replaced>>

\* The arm b'w' of next.
HandleWalData(data) ==
    IF Len(data) > 24
    THEN LET wal_end == read_u64_from_slice(SubSeq(data, 9, 16)).value
             wal_message == parse_wal_data(wal_payload(data), relation_cache)
         IN  /\ last_received_lsn' = advance_lsn(last_received_lsn, wal_end)
             /\ accepted' = accepted \cup {wal_end}
             /\ IF wal_message.ok
                THEN /\ relation_cache' =
                            IF wal_message.value.type = "Relation"
                            THEN cache_insert(relation_cache,
                                              wal_message.value)
                            ELSE relation_cache
                     /\ replaced' =
                            IF wal_message.value.type = "Relation"
                            THEN Overwrites(relation_cache, wal_message.value)
                            ELSE replaced
                     /\ result' = OkResult(wal_message.value)
                ELSE /\ UNCHANGED <<relation_cache, replaced>>
                     /\ result' = ErrResult(wal_message.err)
             /\ pc' = "idle"
             /\ wrote' = <<>>
             /\ UNCHANGED last_status_update
    ELSE /\ wrote' = <<>>
         /\ pc' = "loop"
         /\ UNCHANGED <<last_received_lsn, accepted, last_status_update,
                        result, relation_cache, replaced>>

\* One read_message(true) and the dispatch on what it returned.
ReadStep ==
    /\ pc = "read"
    /\ LET r == read_message(inbound, TRUE)
       IN  /\ r.status # "blocked"
           /\ inbound' = r.rest
           /\ message' = [status |-> r.status, kind |-> r.kind, msg |-> r.msg]
           /\ CASE r.status = "io" ->
                    /\ IF is_transient(r.kind)
                       THEN pc' = "loop" /\ result' = result
                       ELSE pc' = "idle"
                            /\ result' = ErrResult(IoError(r.kind))
                    /\ wrote' = <<>>
                    /\ UNCHANGED <<last_received_lsn, accepted, replaced,
                                   last_status_update, relation_cache>>
                [] r.status = "panic" ->
                    /\ pc' = "panic"
                    /\ wrote' = <<>>
                    /\ UNCHANGED <<last_received_lsn, accepted, result, replaced,
                                   last_status_update, relation_cache>>
                [] r.status = "ok" /\ r.msg.message_type = Byte_k ->
                    \E written \in BOOLEAN :
                        HandleKeepalive(r.msg.data, written)
                [] r.status = "ok" /\ r.msg.message_type = Byte_w ->
                    HandleWalData(r.msg.data)
                [] r.status = "ok" /\ r.msg.message_type = Byte_E ->
                    /\ IF parse_pg_error_message(r.msg.data).ok
                       THEN pc' = "loop" /\ result' = result
                       ELSE pc' = "idle"
                            /\ result' = ErrResult(
                                  parse_pg_error_message(r.msg.data).err)
                    /\ wrote' = <<>>
                    /\ UNCHANGED <<last_received_lsn, accepted, replaced,
                                   last_status_update, relation_cache>>
                [] OTHER ->
                    /\ pc' = "loop"
                    /\ wrote' = <<>>
                    /\ UNCHANGED <<last_received_lsn, accepted, result, replaced,
                                   last_status_update, relation_cache>>
    /\ UNCHANGED now
    /\ UNCHANGED frameVars

Next ==
    \/ ServerSend
    \/ TransportFail
    \/ Tick
    \/ CallNext
    \/ Housekeeping
    \/ ReadStep

Spec == Init /\ [][Next]_vars

(***************************************************************************)
(* SpecConn: Connection::new followed by Subscriber::new.  The client      *)
(* writes the startup packet, runs handle_authentication and then          *)
(* process_startup_messages; on the established connection it sends the    *)
(* START_REPLICATION query and waits for the copy mode.  The server sends  *)
(* frames of its choice and the transport may fail.                        *)
(***************************************************************************)
User == <<117>>
Database == <<100, 98>>
Password == <<112, 119>>

AuthRequest(code, extra) ==
    PlainFrame(Byte_R, i32_to_be_bytes(code) \o extra)

\* S "E" NUL M "x" NUL NUL
ErrorPayload == <<Byte_S, 69, 0, Byte_M, 120, 0, 0>>

ConnCatalogue ==
    { AuthRequest(0, <<>>),
      AuthRequest(3, <<>>),
      AuthRequest(5, <<1, 2, 3, 4>>),
      AuthRequest(5, <<1, 2>>),
      AuthRequest(10, <<>>),
      PlainFrame(Byte_R, <<0, 0>>),
      PlainFrame(Byte_E, ErrorPayload),
      PlainFrame(Byte_S, <<97, 0, 98, 0>>),
      PlainFrame(Byte_K, <<0, 0, 0, 1, 0, 0, 0, 2>>),
      PlainFrame(Byte_K, <<1>>),
      PlainFrame(Byte_N, <<Byte_M, 255>>),
      PlainFrame(Byte_Z, <<73>>),
      PlainFrame(Byte_W, <<0, 0, 0>>),
      PlainFrame(88, <<>>) }

ConnInit ==
    /\ pc = "startup"
    /\ inbound = <<>>
    /\ wrote = <<>>
    /\ relation_cache = EmptyCache
    /\ last_received_lsn = 0
    /\ last_status_update = 0
    /\ now = 0
    /\ result = NoResult
    /\ message = [status |-> "none"]
    /\ accepted = {}
    /\ replaced = FALSE
    /\ FrameOff

ConnServerSend ==
    /\ Len(inbound) <= MaxBacklog
    /\ \E frame \in ConnCatalogue : inbound' = inbound \o frame
    /\ UNCHANGED <<pc, wrote, relation_cache, last_received_lsn,
                   last_status_update, now, result, message, accepted,
                   replaced>>
    /\ UNCHANGED frameVars

\* send_startup_message, the first statement of Connection::new.
ConnStartup ==
    /\ pc = "startup"
    /\ \E written \in BOOLEAN :
        IF written
        THEN /\ wrote' = <<send_startup_message(User, Database)>>
             /\ pc' = "auth"
             /\ result' = result
        ELSE /\ wrote' = <<>>
             /\ pc' = "conn_failed"
             /\ result' = ErrResult(ErrorWith("Io(Write)", <<>>))
    /\ UNCHANGED <<inbound, relation_cache, last_received_lsn,
                   last_status_update, now, message, accepted, replaced>>
    /\ UNCHANGED frameVars

\* A variant that answers every authentication request with a password.
auth_wants_password_Always(auth_type) == TRUE

\* The arms 3 and 5 of `match auth_type`.
auth_wants_password(auth_type) == auth_type \in {3, 5}

\* The password message that answers the request data of type 3 or 5.
password_reply(auth_type, data) ==
    IF auth_type = 3 THEN send_password_message(Password)
    ELSE send_password_message(
            compute_md5_password(Password, User, SubSeq(data, 5, 8)))

\* A variant that lets every authentication request pass.
auth_outcome_AcceptAll(auth_type, data) == "ok"

\* What the arm b'R' of handle_authentication does with a request of at
\* least 4 bytes: "ok", "password" or the error it returns.
auth_outcome(auth_type, data) ==
    IF auth_type = 0 THEN "ok"
    ELSE IF auth_type = 5 /\ Len(data) < 8 THEN "InvalidMd5AuthRequest"
    ELSE IF auth_wants_password(auth_type) THEN "password"
    ELSE "Authentication"

\* The arm b'R' of handle_authentication.
HandleAuthRequest(data, written) ==
    IF Len(data) < 4
    THEN /\ pc' = "conn_failed"
         /\ result' = ErrResult(ErrorWith("InvalidAuthRequest", <<>>))
         /\ wrote' = <<>>
    ELSE LET auth_type == i32_from_be_bytes(Take(data, 4))
             outcome == auth_outcome(auth_type, data)
         IN  CASE outcome = "ok" ->
                    /\ pc' = "drain"
                    /\ wrote' = <<>>
                    /\ result' = result
               [] outcome = "password" ->
                    IF written
                    THEN /\ wrote' = <<password_reply(auth_type, data)>>
                         /\ pc' = "auth"
                         /\ result' = result
                    ELSE /\ wrote' = <<>>
                         /\ pc' = "conn_failed"
                         /\ result' = ErrResult(ErrorWith("Io(Write)", <<>>))
               [] outcome = "InvalidMd5AuthRequest" ->
                    /\ pc' = "conn_failed"
                    /\ result' = ErrResult(ErrorWith(outcome, <<>>))
                    /\ wrote' = <<>>
               [] OTHER ->
                    /\ pc' = "conn_failed"
                    /\ result' = ErrResult(ErrorWith("Authentication",
                                    UnsupportedMethodText
                                    \o format_i32(auth_type)))
                    /\ wrote' = <<>>

\* One call of handle_authentication: one read_message(false) and the match
\* on its type; the recursive call after a password is the next step.
ConnAuthStep ==
    /\ pc = "auth"
    /\ LET r == read_message(inbound, FALSE)
       IN  /\ r.status # "blocked"
           /\ inbound' = r.rest
           /\ message' = [status |-> r.status, kind |-> r.kind, msg |-> r.msg]
           /\ CASE r.status = "io" ->
                    /\ pc' = "conn_failed"
                    /\ result' = ErrResult(ErrorWith(IoError(r.kind), <<>>))
                    /\ wrote' = <<>>
                [] r.status = "panic" ->
                    /\ pc' = "panic"
                    /\ wrote' = <<>>
                    /\ result' = result
                [] r.status = "ok" /\ r.msg.message_type = Byte_R ->
                    \E written \in BOOLEAN :
                        HandleAuthRequest(r.msg.data, written)
                [] r.status = "ok" /\ r.msg.message_type = Byte_E ->
                    /\ pc' = "conn_failed"
                    /\ result' = ErrResult(ErrorWith("Authentication",
                                    parse_error_message(r.msg.data).value))
                    /\ wrote' = <<>>
                [] OTHER ->
                    /\ pc' = "conn_failed"
                    /\ result' = ErrResult(ErrorWith(
                                    "ReplicationProtocolViolation",
                                    UnexpectedTypeText
                                    \o format_char(r.msg.message_type)))
                    /\ wrote' = <<>>
    /\ UNCHANGED <<relation_cache, last_received_lsn, last_status_update,
                   now, accepted, replaced>>
    /\ UNCHANGED frameVars

\* A variant in which a notice fails the startup as an error does.
drain_outcome_NoticeFails(message_type, data) ==
    IF message_type = Byte_Z THEN "ready"
    ELSE IF message_type \in {Byte_E, Byte_N} THEN "ServerStartupFailure"
    ELSE "continue"

\* A variant in which BackendKeyData also ends the drain.
drain_outcome_KeyDataEnds(message_type, data) ==
    IF message_type \in {Byte_Z, Byte_K} THEN "ready"
    ELSE IF message_type = Byte_E THEN "ServerStartupFailure"
    ELSE "continue"

\* The `match message.message_type` of process_startup_messages: 'Z' ends
\* the loop, 'E' fails, 'S', 'K', 'N' (whose text parse_error_message always
\* yields) and every other type go round again.
drain_outcome(message_type, data) ==
    IF message_type = Byte_Z THEN "ready"
    ELSE IF message_type = Byte_E THEN "ServerStartupFailure"
    ELSE IF message_type = Byte_N /\ ~parse_error_message(data).ok
    THEN "NoticeFailed"
    ELSE "continue"

\* One round of the loop of process_startup_messages.
ConnDrainStep ==
    /\ pc = "drain"
    /\ LET r == read_message(inbound, FALSE)
       IN  /\ r.status # "blocked"
           /\ inbound' = r.rest
           /\ message' = [status |-> r.status, kind |-> r.kind, msg |-> r.msg]
           /\ CASE r.status = "io" ->
                    /\ pc' = "conn_failed"
                    /\ result' = ErrResult(ErrorWith(IoError(r.kind), <<>>))
                [] r.status = "panic" ->
                    /\ pc' = "panic"
                    /\ result' = result
                [] OTHER ->
                    LET outcome == drain_outcome(r.msg.message_type,
                                                 r.msg.data)
                    IN  CASE outcome = "ready" ->
                               /\ pc' = "conn_ok"
                               /\ result' = OkResult("Connection")
                          [] outcome = "continue" ->
                               /\ pc' = "drain"
                               /\ result' = result
                          [] OTHER ->
                               /\ pc' = "conn_failed"
                               /\ result' = ErrResult(ErrorWith(outcome,
                                    parse_error_message(r.msg.data).value))
    /\ wrote' = <<>>
    /\ UNCHANGED <<relation_cache, last_received_lsn, last_status_update,
                   now, accepted, replaced>>
    /\ UNCHANGED frameVars

\* The text of the START_REPLICATION command for a slot and a publication.
start_replication_command(slot_name, publication_name) ==
    <<83, 84, 65, 82, 84, 95, 82, 69, 80, 76, 73, 67, 65, 84, 73, 79, 78, 32,
      83, 76, 79, 84, 32>>
    \o slot_name
    \o <<32, 76, 79, 71, 73, 67, 65, 76, 32, 48, 47, 48, 32, 40, 112, 114,
         111, 116, 111, 95, 118, 101, 114, 115, 105, 111, 110, 32, 39, 49, 39,
         44, 32, 112, 117, 98, 108, 105, 99, 97, 116, 105, 111, 110, 95, 110,
         97, 109, 101, 115, 32, 39>>
    \o publication_name
    \o <<39, 41>>

\* Subscriber::new on the established connection, up to the Query message
\* of start_replication, for slot "s" and publication "p".
StartQuery ==
    /\ pc = "conn_ok"
    /\ \E written \in BOOLEAN :
        IF written
        THEN /\ wrote' = <<write_message(Byte_Q,
                              start_replication_command(<<115>>, <<112>>)
                              \o <<0>>, FALSE)>>
             /\ pc' = "sr_wait"
             /\ result' = NoResult
        ELSE /\ wrote' = <<>>
             /\ pc' = "sr_failed"
             /\ result' = ErrResult(ErrorWith("Io(Write)", <<>>))
    /\ UNCHANGED <<inbound, relation_cache, last_received_lsn,
                   last_status_update, now, message, accepted, replaced>>
    /\ UNCHANGED frameVars

\* A variant that skips an ErrorResponse like any other unexpected frame.
start_outcome_ErrorSkipped(message_type) ==
    IF message_type = Byte_W THEN "started" ELSE "continue"

\* The `match message.message_type` of start_replication.
start_outcome(message_type) ==
    IF message_type = Byte_W THEN "started"
    ELSE IF message_type = Byte_E THEN "ReplicationCommandFailed"
    ELSE "continue"

\* One round of the response loop of start_replication, and what follows
\* the loop when it is left.
StartWaitStep ==
    /\ pc = "sr_wait"
    /\ LET r == read_message(inbound, FALSE)
       IN  /\ r.status # "blocked"
           /\ inbound' = r.rest
           /\ message' = [status |-> r.status, kind |-> r.kind, msg |-> r.msg]
           /\ CASE r.status = "io" ->
                    /\ pc' = "sr_failed"
                    /\ result' = ErrResult(ErrorWith(IoError(r.kind), <<>>))
                [] r.status = "panic" ->
                    /\ pc' = "panic"
                    /\ result' = result
                [] OTHER ->
                    LET outcome == start_outcome(r.msg.message_type)
                        copy_mode_started == outcome = "started"
                    IN  CASE outcome = "continue" ->
                               /\ pc' = "sr_wait"
                               /\ result' = result
                          [] outcome = "ReplicationCommandFailed" ->
                               /\ pc' = "sr_failed"
                               /\ result' = ErrResult(ErrorWith(outcome,
                                    parse_pg_error_message(r.msg.data).value))
                          [] OTHER ->
                               IF copy_mode_started
                               THEN /\ pc' = "sr_ok"
                                    /\ result' = OkResult("Subscriber")
                               ELSE /\ pc' = "sr_failed"
                                    /\ result' = ErrResult(ErrorWith(
                                         "ReplicationCopyModeNotStarted", <<>>))
    /\ wrote' = <<>>
    /\ UNCHANGED <<relation_cache, last_received_lsn, last_status_update,
                   now, accepted, replaced>>
    /\ UNCHANGED frameVars

ConnNext ==
    \/ ConnServerSend
    \/ TransportFail
    \/ ConnStartup
    \/ ConnAuthStep
    \/ ConnDrainStep
    \/ StartQuery
    \/ StartWaitStep

SpecConn == ConnInit /\ [][ConnNext]_vars

\* C1: what write_message(t, d, copy) puts on the transport is parsed by
\* read_message(copy) as exactly (t, d), for copy = false and for copy = true,
\* and the read consumes the frame and none of the bytes that follow it.
C1_RoundTrip ==
    f_pc = "read" =>
        /\ f_msg = [status |-> "ok",
                    msg |-> [message_type |-> f_type, data |-> f_data]]
        /\ f_wire = f_trail

\* A CopyData round trip of a non-empty payload whose type byte is 'd'
\* itself, with bytes following the frame, has completed.
C1_Witness ==
    /\ f_pc = "read"
    /\ f_copy
    /\ f_type = Byte_d
    /\ Len(f_data) = MaxPayload
    /\ f_trail # <<>>
    /\ f_msg.status = "ok"

Max(S) == CHOOSE x \in S : \A y \in S : y <= x

\* C3: last_received_lsn never decreases, and it is always the largest of 0
\* and every wal_end taken from a keepalive or a WAL-data frame so far.
C3_LsnIsMaxAccepted ==
    /\ [](last_received_lsn = Max(accepted \cup {0}))
    /\ [][last_received_lsn' >= last_received_lsn]_vars

\* A keepalive with wal_end 3 was taken after the position had reached 5.
C3_Witness ==
    /\ last_received_lsn = 5 /\ accepted = {3, 4, 5}
    /\ message.status = "ok" /\ message.msg.message_type = Byte_k
    /\ read_u64_from_slice(Take(message.msg.data, 8)).value = 3

\* The change message of the last successful return, if it is one.
ReturnedDml ==
    /\ pc = "idle" /\ result.kind = "ok"
    /\ result.msg.type \in {"Insert", "Update", "Delete"}

\* The tuples a change message carries.
ReturnedTuples(m) ==
    CASE m.type = "Insert" -> <<m.tuple_data>>
      [] m.type = "Update" ->
            (IF m.old_tuple_data = NoneV THEN <<>>
             ELSE <<m.old_tuple_data.v>>) \o <<m.new_tuple_data>>
      [] m.type = "Delete" ->
            IF m.old_tuple_data = NoneV THEN <<>> ELSE <<m.old_tuple_data.v>>

\* The be16 column count of the tuple that starts at d on the wire.
WireColumnCount(d) ==
    IF d[1] = Byte_N THEN u16_from_be_bytes(SubSeq(d, 2, 3))
    ELSE u16_from_be_bytes(SubSeq(d, 1, 2))

\* The size on the wire of the field that starts at d.
WireFieldSize(d) ==
    IF d[1] \in {Byte_t, Byte_b}
    THEN IF i32_from_be_bytes(SubSeq(d, 2, 5)) < 0 THEN 5
         ELSE 5 + i32_from_be_bytes(SubSeq(d, 2, 5))
    ELSE 1

RECURSIVE SkipWireFields(_, _)
SkipWireFields(d, n) ==
    IF n = 0 THEN d ELSE SkipWireFields(Drop(d, WireFieldSize(d)), n - 1)

\* What follows the tuple that starts at d.
AfterWireTuple(d) ==
    SkipWireFields(Drop(d, IF d[1] = Byte_N THEN 3 ELSE 2), WireColumnCount(d))

\* The column counts the tuples of a pgoutput change message carry.
WireColumnCounts(payload) ==
    CASE payload[1] = Byte_I ->
            <<WireColumnCount(skip_N(Drop(payload, 5)))>>
      [] payload[1] = Byte_U ->
            IF payload[6] = Byte_O
            THEN <<WireColumnCount(Drop(payload, 6)),
                   WireColumnCount(AfterWireTuple(Drop(payload, 6)))>>
            ELSE <<WireColumnCount(Drop(payload, 6))>>
      [] payload[1] = Byte_D ->
            IF payload[6] = Byte_O THEN <<WireColumnCount(Drop(payload, 6))>>
            ELSE <<>>

\* C4 as stated: every tuple of a returned Insert, Update or Delete is as
\* long as the column list of the cached relation, when the relation is cached.
C4_TupleLengthIsCachedCount ==
    (ReturnedDml /\ result.msg.relation_id \in DOMAIN relation_cache) =>
        \A i \in DOMAIN ReturnedTuples(result.msg) :
            Len(ReturnedTuples(result.msg)[i])
                = Len(relation_cache[result.msg.relation_id].columns)

\* C4 amended: every tuple of a returned Insert, Update or Delete is as long
\* as the be16 column count its own data carries on the wire, whether or not
\* the relation is cached and whatever the cached column count is.
C4_TupleLengthIsWireCount ==
    ReturnedDml =>
        /\ Len(ReturnedTuples(result.msg))
              = Len(WireColumnCounts(Drop(message.msg.data, 24)))
        /\ \A i \in DOMAIN ReturnedTuples(result.msg) :
              Len(ReturnedTuples(result.msg)[i])
                  = WireColumnCounts(Drop(message.msg.data, 24))[i]

\* An Insert of two fields was returned while the cached relation has one
\* column.
C4_Witness ==
    /\ ReturnedDml /\ result.msg.type = "Insert"
    /\ result.msg.relation_id \in DOMAIN relation_cache
    /\ Len(relation_cache[result.msg.relation_id].columns) = 1
    /\ Len(result.msg.tuple_data) = 2

\* C5: when next has returned a Relation message, relation_info of its id
\* holds exactly the namespace, name, replica identity and columns of that
\* message, also when the id was cached before with other contents.
C5_RelationCached ==
    (pc = "idle" /\ result.kind = "ok" /\ result.msg.type = "Relation") =>
        relation_info(relation_cache, result.msg.id) =
            Some([namespace |-> result.msg.namespace,
                  name |-> result.msg.name,
                  columns |-> result.msg.columns,
                  replica_identity |-> result.msg.replica_identity])

\* The Relation message returned last replaced a different entry of its id.
C5_Witness ==
    /\ pc = "idle" /\ result.kind = "ok" /\ result.msg.type = "Relation"
    /\ replaced
    /\ Len(result.msg.columns) = 1

\* C6 as stated: every returned Insert, Update or Delete names a relation
\* that is in relation_cache.
C6_DmlRelationCached ==
    ReturnedDml => result.msg.relation_id \in DOMAIN relation_cache

\* The values of the tuples of a change message that are not NULL.
ReturnedValues(m) ==
    { ReturnedTuples(m)[i][j].v :
        <<i, j>> \in { ij \in (1..2) \X (1..2) :
                        /\ ij[1] \in DOMAIN ReturnedTuples(m)
                        /\ ij[2] \in DOMAIN ReturnedTuples(m)[ij[1]]
                        /\ ReturnedTuples(m)[ij[1]][ij[2]] # NoneV } }

\* C6 amended: an Insert, Update or Delete whose relation is not in
\* relation_cache is decoded and returned all the same, every field of it
\* decoded as TEXT (type 25): a value is Text, or Binary when it is a
\* binary-format field that is not UTF-8.
C6_UncachedDmlDecodedAsText ==
    (ReturnedDml /\ result.msg.relation_id \notin DOMAIN relation_cache) =>
        \A v \in ReturnedValues(result.msg) : v.tag \in {"Text", "Binary"}

\* An Insert was returned before any Relation message.
C6_Witness ==
    /\ ReturnedDml /\ result.msg.type = "Insert"
    /\ relation_cache = EmptyCache
    /\ Len(result.msg.tuple_data) = 2
    /\ result.msg.tuple_data[1] # NoneV

\* C7: the housekeeping step at the top of the loop of next, when 10 s or
\* more have passed since last_status_update, writes exactly one status
\* update and resets the timer before anything is read (or returns the write
\* error without reading); when less than 10 s have passed it writes nothing
\* and leaves the timer.
C7_PeriodicStatusUpdate ==
    [][ (pc = "loop" /\ pc' # "loop") =>
            IF now - last_status_update >= 10
            THEN /\ inbound' = inbound
                 /\ message' = message
                 /\ \/ /\ Len(wrote') = 1
                       /\ last_status_update' = now
                       /\ pc' = "read"
                    \/ /\ wrote' = <<>>
                       /\ pc' = "idle"
                       /\ result'.kind = "err"
            ELSE /\ wrote' = <<>>
                 /\ last_status_update' = last_status_update
                 /\ pc' = "read"
                 /\ inbound' = inbound
      ]_vars

\* Exactly 10 s after the last update one was written and the timer reset.
C7_Witness ==
    /\ pc = "read" /\ Len(wrote) = 1
    /\ now = 10 /\ last_status_update = now

\* The position a status update frame reports as written.
StatusFrameLsn(frame) == from_be_bytes(SubSeq(frame, 7, 14))

\* C8: the step of next that reads a keepalive asking for a reply writes one
\* status update before anything else is read, its position not below the
\* wal_end of that keepalive and equal to the updated last_received_lsn, and
\* resets the timer (or returns the write error); a keepalive with the reply
\* byte 0 causes no write and leaves the timer.
C8_KeepaliveReply ==
    [][ (/\ pc = "read" /\ pc' # "read"
         /\ read_message(inbound, TRUE).status = "ok"
         /\ read_message(inbound, TRUE).msg.message_type = Byte_k
         /\ Len(read_message(inbound, TRUE).msg.data) >= 17) =>
            IF read_message(inbound, TRUE).msg.data[17] # 0
            THEN \/ /\ Len(wrote') = 1
                    /\ StatusFrameLsn(wrote'[1]) = last_received_lsn'
                    /\ StatusFrameLsn(wrote'[1]) >=
                         from_be_bytes(
                            Take(read_message(inbound, TRUE).msg.data, 8))
                    /\ last_status_update' = now
                    /\ inbound' = read_message(inbound, TRUE).rest
                    /\ pc' = "loop"
                 \/ /\ wrote' = <<>>
                    /\ pc' = "idle"
                    /\ result'.kind = "err"
            ELSE /\ wrote' = <<>>
                 /\ last_status_update' = last_status_update
                 /\ pc' = "loop"
      ]_vars

\* The keepalive with wal_end 3 and the reply byte set moved the position
\* from 0 to 3 and the reply reports 3.
C8_Witness ==
    /\ pc = "loop" /\ message.status = "ok"
    /\ message.msg.message_type = Byte_k
    /\ Len(message.msg.data) = 17 /\ message.msg.data[17] = 1
    /\ Len(wrote) = 1 /\ StatusFrameLsn(wrote[1]) = 3
    /\ accepted = {3}

\* C9: every status update written is a CopyData frame ('d') around an 'r'
\* message of 34 bytes whose write, flush and apply positions are all
\* last_received_lsn and whose last byte, the reply request, is 0.
C9_StatusUpdateLayout ==
    \A i \in DOMAIN wrote :
        /\ Len(wrote[i]) = 39
        /\ wrote[i][1] = 100
        /\ SubSeq(wrote[i], 2, 5) = <<0, 0, 0, 38>>
        /\ wrote[i][6] = 114
        /\ from_be_bytes(SubSeq(wrote[i], 7, 14)) = last_received_lsn
        /\ from_be_bytes(SubSeq(wrote[i], 15, 22)) = last_received_lsn
        /\ from_be_bytes(SubSeq(wrote[i], 23, 30)) = last_received_lsn
        /\ wrote[i][39] = 0

\* A status update was written after the position had moved to 5.
C9_Witness ==
    /\ Len(wrote) = 1 /\ last_received_lsn = 5 /\ pc = "read"

\* C10: a read that fails with WouldBlock or TimedOut is not returned by
\* next: the loop goes back to the housekeeping step, which precedes the next
\* read; a read that fails with any other error makes next return that error
\* at once, nothing written.
C10_TransientReadErrors ==
    [][ (/\ pc = "read" /\ pc' # "read"
         /\ read_message(inbound, TRUE).status = "io") =>
            IF read_message(inbound, TRUE).kind \in {WouldBlock, TimedOut}
            THEN /\ pc' = "loop"
                 /\ result' = result
                 /\ wrote' = <<>>
            ELSE /\ pc' = "idle"
                 /\ result' =
                      ErrResult(IoError(read_message(inbound, TRUE).kind))
                 /\ wrote' = <<>>
                 /\ Len(inbound') = Len(inbound) - 1
      ]_vars

\* A read has just failed with WouldBlock and the loop is about to run again.
C10_Witness ==
    /\ pc = "loop" /\ message.status = "io" /\ message.kind = WouldBlock
    /\ result.kind = "none"

(***************************************************************************)
(* SpecDecode: next over a stream of Insert messages for relation 1, whose *)
(* Relation message declares the columns (a int4, b text, c of the type    *)
(* OID 9999, which neither parse_text_value nor parse_binary_value knows). *)
(* The tuples have one to three fields, each a text field (a number, a     *)
(* letter, a byte that is not UTF-8), a binary field (4 bytes, 1 byte, a   *)
(* byte that is not UTF-8) or a NULL; one tuple ends in a binary field     *)
(* that declares 4 bytes and has 1; four tuples start with a field that    *)
(* has no value ('u', the byte 0, a text and a binary field of length -1)  *)
(* followed by a text field.  The Updates carry an old tuple ('O'),  *)
(* a key tuple ('K') or the new tuple alone, one of them an old tuple and   *)
(* nothing after it; the Deletes carry an old tuple or a key tuple.         *)
(***************************************************************************)
DecodeCatalogue ==
    LET Fields == { TextField(<<55>>), TextField(<<120>>), TextField(<<255>>),
                    BinaryField(<<0, 0, 0, 7>>), BinaryField(<<1>>),
                    BinaryField(<<255>>), <<Byte_n>> }
        Rel == <<Byte_R>> \o RelId \o CString(<<112>>) \o CString(<<116>>)
               \o <<Byte_d>> \o to_be_bytes(3, 2)
               \o ColumnBytes(1, <<97>>, PG_TYPE_INT4)
               \o ColumnBytes(0, <<98>>, PG_TYPE_TEXT)
               \o ColumnBytes(0, <<99>>, 9999)
        Insert(n, fields) ==
            XLogData(1, <<Byte_I>> \o RelId \o <<Byte_N>> \o to_be_bytes(n, 2)
                        \o fields)
    IN  {XLogData(1, Rel)}
        \cup {Insert(1, f) : f \in Fields}
        \cup {Insert(2, f \o g) :
                f \in {BinaryField(<<1>>), <<Byte_n>>},
                g \in {TextField(<<120>>), TextField(<<255>>),
                       BinaryField(<<255>>)}}
        \cup {Insert(3, <<Byte_n, Byte_n>> \o h) :
                h \in {TextField(<<55>>), BinaryField(<<1>>),
                       BinaryField(<<0, 0, 0, 7>>)}}
        \cup {Insert(2, <<Byte_n, Byte_b, 0, 0, 0, 4, 1>>)}
        \cup {Insert(2, f \o TextField(<<120>>)) :
                f \in {<<Byte_u>>, <<0>>, <<Byte_t>> \o i32_to_be_bytes(-1),
                       <<Byte_b>> \o i32_to_be_bytes(-1)}}
        \cup {XLogData(1, <<Byte_U>> \o RelId \o <<flag>> \o to_be_bytes(1, 2)
                           \o TextField(<<55>>) \o <<Byte_N>>
                           \o to_be_bytes(1, 2) \o TextField(<<120>>)) :
                flag \in {Byte_O, Byte_K}}
        \cup {XLogData(1, <<Byte_U>> \o RelId \o <<Byte_N>>
                           \o to_be_bytes(1, 2) \o TextField(<<56>>)),
              XLogData(1, <<Byte_U>> \o RelId \o <<Byte_O>>
                           \o to_be_bytes(1, 2) \o TextField(<<120>>))}
        \cup {XLogData(1, <<Byte_D>> \o RelId \o <<flag>> \o to_be_bytes(1, 2)
                           \o TextField(<<55>>)) :
                flag \in {Byte_O, Byte_K}}

DecodeServerSend ==
    /\ Len(inbound) <= MaxBacklog
    /\ \E frame \in DecodeCatalogue : inbound' = inbound \o frame
    /\ UNCHANGED <<pc, wrote, relation_cache, last_received_lsn,
                   last_status_update, now, result, message, accepted,
                   replaced>>
    /\ UNCHANGED frameVars

DecodeNext ==
    \/ DecodeServerSend
    \/ CallNext
    \/ Housekeeping
    \/ ReadStep

SpecDecode == Init /\ [][DecodeNext]_vars

(***************************************************************************)
(* SpecErr: parse_error_message applied to one ErrorResponse payload.  The *)
(* payload is the encoding of up to MaxFields fields (a type byte, a value *)
(* without NUL, a NUL), with or without the final NUL.                     *)
(***************************************************************************)
ErrorFields ==
    [field_type : {Byte_S, Byte_M, Byte_C},
     value : {<<>>, <<69>>, <<120>>, <<255>>}]

RECURSIVE error_payload(_)
error_payload(fields) ==
    IF fields = <<>> THEN <<>>
    ELSE <<fields[1].field_type>> \o fields[1].value \o <<0>>
         \o error_payload(Tail(fields))

ErrInit ==
    /\ f_pc = "err_in"
    /\ f_trail \in BoundedSeq(ErrorFields, MaxFields)
    /\ f_copy \in BOOLEAN
    /\ f_data = error_payload(f_trail) \o (IF f_copy THEN <<0>> ELSE <<>>)
    /\ f_type = Byte_E
    /\ f_wire = <<>>
    /\ f_msg = [status |-> "none"]
    /\ SubIdle

ErrParse ==
    /\ f_pc = "err_in"
    /\ f_pc' = "err_out"
    /\ f_msg' = parse_error_message(f_data)
    /\ UNCHANGED <<f_type, f_data, f_copy, f_wire, f_trail>>
    /\ UNCHANGED subVars

SpecErr == ErrInit /\ [][ErrParse]_vars

\* The step reads from the transport.
(***************************************************************************)
(* impl Display for Value and impl PartialEq for Value.                    *)
(***************************************************************************)
\* `{}` of an f32 or f64: "NaN", "inf", "-inf", or the shortest decimal that
\* reads back as the same float, written without an exponent.
display_float(f) ==
    LET sign == IF f.neg THEN <<45>> ELSE <<>>
        d == format_i32(f.m)
        k == Len(d) + f.e
    IN  IF f.class = "nan" THEN <<78, 97, 78>>
        ELSE IF f.class = "inf" THEN sign \o <<105, 110, 102>>
        ELSE IF f.e >= 0 THEN sign \o d \o [i \in 1..f.e |-> 48]
        ELSE IF k > 0 THEN sign \o Take(d, k) \o <<46>> \o Drop(d, k)
        ELSE sign \o <<48, 46>> \o [i \in 1..(0 - k) |-> 48] \o d

\* A variant that renders a boolean as PostgreSQL writes it, 't' or 'f'.
display_value_PgBool(v) ==
    CASE v.tag \in {"Text", "Uuid", "Json", "Jsonb"} -> v.s
      [] v.tag \in {"Integer", "BigInt"} -> format_i32(v.i)
      [] v.tag \in {"Float", "Double"} -> display_float(v.f)
      [] v.tag = "Boolean" -> IF v.b THEN <<116>> ELSE <<102>>
      [] v.tag = "Binary" ->
            <<60, 98, 105, 110, 97, 114, 121, 32, 100, 97, 116, 97, 58, 32>> \o format_i32(Len(v.s))
            \o <<32, 98, 121, 116, 101, 115, 62>>
      [] v.tag = "Unknown" ->
            <<60, 117, 110, 107, 110, 111, 119, 110, 32, 116, 121, 112, 101, 58, 32>> \o format_i32(v.oid) \o <<62>>

\* Display::fmt for the values the decoders of the model return: the string
\* or number itself, "true" or "false", "<binary data: N bytes>" and
\* "<unknown type: OID>".
display_value(v) ==
    CASE v.tag \in {"Text", "Uuid", "Json", "Jsonb"} -> v.s
      [] v.tag \in {"Integer", "BigInt"} -> format_i32(v.i)
      [] v.tag \in {"Float", "Double"} -> display_float(v.f)
      [] v.tag = "Boolean" ->
            IF v.b THEN <<116, 114, 117, 101>> ELSE <<102, 97, 108, 115, 101>>
      [] v.tag = "Binary" ->
            <<60, 98, 105, 110, 97, 114, 121, 32, 100, 97, 116, 97, 58, 32>> \o format_i32(Len(v.s))
            \o <<32, 98, 121, 116, 101, 115, 62>>
      [] v.tag = "Unknown" ->
            <<60, 117, 110, 107, 110, 111, 119, 110, 32, 116, 121, 112, 101, 58, 32>> \o format_i32(v.oid) \o <<62>>

\* PartialEq::eq: Float and Double are equal when `(a - b).abs()` is below
\* EPSILON, which no NaN and no infinity is; two finite floats of the model
\* differ by 10^-6 at least, more than EPSILON, unless they are the same.
\* Every other variant is equal to itself alone.
value_eq(a, b) ==
    IF a.tag \in {"Float", "Double"} /\ a.tag = b.tag
    THEN a.f.class = "finite" /\ b.f.class = "finite" /\ a.f = b.f
    ELSE a = b

(***************************************************************************)
(* SpecValue: the value decoders of value.rs applied to one input.         *)
(* parse_binary_value is given the OID UUID and 0, 1, 15, 16 or 17 bytes;  *)
(* byte i of an input is (BinStep * i + BinBase) % 256 for a step and a    *)
(* base of the sets below, so that the inputs hold equal bytes, rising     *)
(* bytes, bytes under 16 and bytes over 127.  parse_timestamptz is given a *)
(* date and time, with or without a fraction, followed by a timezone part  *)
(* of one of the shapes below, a text of fewer than 3 bytes, or a text of  *)
(* 257 bytes: a date and time with a fraction of 234 digits and "+01".     *)
(* parse_text_value is given every OID of RoundTripOids with every text of *)
(* RoundTripTexts, and then the Display form of the value it returned.     *)
(***************************************************************************)
BinarySteps == {0, 1, 17, 37}
BinaryBases == {0, 9, 10, 15, 16, 128, 255}
BinaryLengths == {0, 1, 15, 16, 17}

BinaryInputs ==
    {[i \in 1..n |-> (a * i + c) % 256] :
        n \in BinaryLengths, a \in BinarySteps, c \in BinaryBases}

\* The i64 microsecond counts handed to the TIME decoder:
\*   0                      0
\*   1                      1 us
\*   45296789012            12:34:56.789012
\*   86399999999            one microsecond before 24 h
\*   86400000000            24 h
\*   90000000000            25 h
\*   921600000000           256 h: the hour count wraps in 8 bits
\*   4294967296000000       2^32 s: the second count wraps in 32 bits
\*   4295012592789012       2^32 s + 12:34:56.789012
\*   -1                     -1 us
\*   -1000000               -1 s
\*   -224897000000          -224897 s: the second count wraps in 32 bits
\*   9223372036854775807    i64::MAX
\*   -9223372036854775808   i64::MIN
TimeMicros ==
    { <<0, 0, 0, 0, 0, 0, 0, 0>>,
      <<0, 0, 0, 0, 0, 0, 0, 1>>,
      <<0, 0, 0, 10, 139, 230, 38, 20>>,
      <<0, 0, 0, 20, 29, 215, 95, 255>>,
      <<0, 0, 0, 20, 29, 215, 96, 0>>,
      <<0, 0, 0, 20, 244, 107, 4, 0>>,
      <<0, 0, 0, 214, 147, 164, 0, 0>>,
      <<0, 15, 66, 64, 0, 0, 0, 0>>,
      <<0, 15, 66, 74, 139, 230, 38, 20>>,
      <<255, 255, 255, 255, 255, 255, 255, 255>>,
      <<255, 255, 255, 255, 255, 240, 189, 192>>,
      <<255, 255, 255, 203, 163, 24, 29, 192>>,
      <<127, 255, 255, 255, 255, 255, 255, 255>>,
      <<128, 0, 0, 0, 0, 0, 0, 0>> }

\* The same, and inputs that are not 8 bytes long.
TimeInputs ==
    TimeMicros \cup {<<>>, <<0, 0, 0, 1>>, <<0, 0, 0, 0, 0, 0, 0, 0, 1>>}

\* "2023-12-25 14:30:45", the same with ".123456", and
\* "2023-11-12 19:30:00.5".
CivilTexts ==
    LET xmas == <<50, 48, 50, 51, 45, 49, 50, 45, 50, 53, 32,
                  49, 52, 58, 51, 48, 58, 52, 53>>
        nov == <<50, 48, 50, 51, 45, 49, 49, 45, 49, 50, 32,
                 49, 57, 58, 51, 48, 58, 48, 48>>
    IN  {xmas, xmas \o <<46, 49, 50, 51, 52, 53, 54>>, nov \o <<46, 53>>}

\* No timezone, "+01", "-05", "+05:30", "-03:30", "+0530", "+1", "+05:3" and
\* "+05-30".
TimezoneTexts ==
    { <<>>,
      <<43, 48, 49>>,
      <<45, 48, 53>>,
      <<43, 48, 53, 58, 51, 48>>,
      <<45, 48, 51, 58, 51, 48>>,
      <<43, 48, 53, 51, 48>>,
      <<43, 49>>,
      <<43, 48, 53, 58, 51>>,
      <<43, 48, 53, 45, 51, 48>> }

TimestamptzInputs ==
    {c \o t : c \in CivilTexts, t \in TimezoneTexts}
    \cup {<<>>, <<43, 49>>, <<97, 98>>}
    \cup {<<50, 48, 50, 51, 45, 49, 50, 45, 50, 53, 32,
            49, 52, 58, 51, 48, 58, 52, 53, 46>>
          \o [i \in 1..234 |-> 48] \o <<43, 48, 49>>}

RoundTripOids ==
    {PG_TYPE_BOOL, PG_TYPE_INT2, PG_TYPE_INT4, PG_TYPE_INT8, PG_TYPE_FLOAT4,
     PG_TYPE_FLOAT8, PG_TYPE_UUID, PG_TYPE_JSON, PG_TYPE_JSONB, PG_TYPE_TEXT,
     PG_TYPE_VARCHAR}

\* "t", "f", "true", "5", "-12", "+7", "007", "x", "", "3.14", "1.50",
\* "-0.5", ".5", "1e2", "2.5e-1", "inf", "-inf", "NaN", "-0" and {"a":1}.
RoundTripTexts ==
    { <<116>>,
      <<102>>,
      <<116, 114, 117, 101>>,
      <<53>>,
      <<45, 49, 50>>,
      <<43, 55>>,
      <<48, 48, 55>>,
      <<120>>,
      <<>>,
      <<51, 46, 49, 52>>,
      <<49, 46, 53, 48>>,
      <<45, 48, 46, 53>>,
      <<46, 53>>,
      <<49, 101, 50>>,
      <<50, 46, 53, 101, 45, 49>>,
      <<105, 110, 102>>,
      <<45, 105, 110, 102>>,
      <<78, 97, 78>>,
      <<45, 48>>,
      <<123, 34, 97, 34, 58, 49, 125>> }

ValueInit ==
    /\ \/ /\ f_pc = "binary_in"
          /\ f_type = PG_TYPE_UUID
          /\ f_data \in BinaryInputs
       \/ /\ f_pc = "binary_in"
          /\ f_type = PG_TYPE_TIME
          /\ f_data \in TimeInputs
       \/ /\ f_pc = "timestamptz_in"
          /\ f_type = PG_TYPE_TIMESTAMPTZ
          /\ f_data \in TimestamptzInputs
       \/ /\ f_pc = "text_in"
          /\ f_type \in RoundTripOids
          /\ f_data \in RoundTripTexts
    /\ f_copy = FALSE
    /\ f_trail = <<>>
    /\ f_wire = <<>>
    /\ f_msg = [status |-> "none"]
    /\ SubIdle

\* parse_binary_value(binary_data, type_id, binary_data.len()).
ParseBinary ==
    /\ f_pc = "binary_in"
    /\ f_pc' = "binary_out"
    /\ f_msg' = parse_binary_value(f_data, f_type, Len(f_data))
    /\ UNCHANGED <<f_type, f_data, f_copy, f_wire, f_trail>>
    /\ UNCHANGED subVars

\* parse_timestamptz(text); f_wire is the text handed to strptime.
ParseTimestamptz ==
    /\ f_pc = "timestamptz_in"
    /\ IF timestamptz_panics(f_data)
       THEN /\ f_pc' = "panic"
            /\ UNCHANGED <<f_wire, f_msg>>
       ELSE /\ f_pc' = "timestamptz_out"
            /\ f_wire' = IF timestamptz_is_normalized(f_data)
                         THEN normalized_timestamptz(f_data) ELSE f_data
            /\ f_msg' = parse_timestamptz(f_data)
    /\ UNCHANGED <<f_type, f_data, f_copy, f_trail>>
    /\ UNCHANGED subVars

\* parse_text_value(text, type_id) and, when it returns a value, the
\* Display form of the value (f_wire) and parse_text_value of that form.
TextRoundTrip ==
    /\ f_pc = "text_in"
    /\ f_pc' = "text_out"
    /\ LET first == parse_text_value(f_data, f_type)
       IN  IF first.ok
           THEN /\ f_wire' = display_value(first.value)
                /\ f_msg' = [first |-> first,
                             again |-> parse_text_value(
                                          display_value(first.value), f_type)]
           ELSE /\ f_wire' = <<>>
                /\ f_msg' = [first |-> first, again |-> first]
    /\ UNCHANGED <<f_type, f_data, f_copy, f_trail>>
    /\ UNCHANGED subVars

ValueNext ==
    \/ ParseBinary
    \/ ParseTimestamptz
    \/ TextRoundTrip

SpecValue == ValueInit /\ [][ValueNext]_vars

(***************************************************************************)
(* SpecWide: next on Insert messages of many columns.  The server sends    *)
(* Relation 1 and Inserts for relation 1 of the form relation_id, 'N',     *)
(* be16 column_count, column_count fields, every field a single format     *)
(* byte without a value: the NULL byte 'n', but for the first field of the *)
(* widest tuple, which has the format byte 2.  The counts are 0, 1, 2, 78  *)
(* (low byte 'N') and 19968 (high byte 'N', low byte 0).                   *)
(***************************************************************************)
NullFields(first, n) == [i \in 1..n |-> IF i = 1 THEN first ELSE Byte_n]

WideInsert(n, first) ==
    XLogData(1, <<Byte_I>> \o RelId \o <<Byte_N>> \o to_be_bytes(n, 2)
                \o NullFields(first, n))

WideCatalogue ==
    {XLogData(1, RelationA), WideInsert(78 * 256, 2)}
    \cup {WideInsert(n, Byte_n) : n \in {0, 1, 2, 78}}

WideServerSend ==
    /\ Len(inbound) <= MaxBacklog
    /\ \E frame \in WideCatalogue : inbound' = inbound \o frame
    /\ UNCHANGED <<pc, wrote, relation_cache, last_received_lsn,
                   last_status_update, now, result, message, accepted,
                   replaced>>
    /\ UNCHANGED frameVars

WideNext ==
    \/ WideServerSend
    \/ CallNext
    \/ Housekeeping
    \/ ReadStep

SpecWide == Init /\ [][WideNext]_vars

(***************************************************************************)
(* SpecTimed: the loop of next against the clock.  read_message calls      *)
(* read_exact for the five bytes of the header and, when the frame has a   *)
(* payload, once more for the payload.  Each of the two reads returns,     *)
(* with its bytes or with an error, at most ReadDeadline seconds after it  *)
(* started.  The caller calls next again as soon as it has returned.       *)
(***************************************************************************)
ReadDeadline == 3       \* seconds a read_exact may take
TimedMaxTime == 26      \* the clock stops here

TimedCatalogue ==
    { Keepalive(5, 0),
      Keepalive(3, 1),
      XLogData(4, <<Byte_B>> \o u64_to_be_bytes(4)),
      PlainFrame(99, <<>>),
      <<WouldBlock>>,
      <<TimedOut>>,
      <<ConnectionReset>> }

\* What the pending read will find: a frame, or the failure of the read.
TimedServerSend ==
    /\ inbound = <<>>
    /\ \E frame \in TimedCatalogue : inbound' = frame
    /\ UNCHANGED <<pc, wrote, relation_cache, last_received_lsn,
                   last_status_update, now, result, message, accepted,
                   replaced>>
    /\ UNCHANGED frameVars

\* The size of the buffer of the second read_exact of read_message, 0 when
\* the first one fails.
payload_read_size(s) ==
    IF read_exact(s, 5).status = "ok"
    THEN i32_from_be_bytes(SubSeq(read_exact(s, 5).bytes, 2, 5)) - 4
    ELSE 0

\* `self.stream.read_exact(&mut header)` returns after d seconds.
HeaderWait ==
    /\ pc = "read"
    /\ inbound # <<>>
    /\ message.status \notin {"header", "payload"}
    /\ \E d \in 0..ReadDeadline :
           /\ now + d <= TimedMaxTime
           /\ now' = now + d
    /\ message' = [status |-> "header"]
    /\ UNCHANGED <<pc, inbound, wrote, relation_cache, last_received_lsn,
                   last_status_update, result, accepted, replaced>>
    /\ UNCHANGED frameVars

\* `self.stream.read_exact(&mut data)` returns after d seconds.  A read into
\* an empty buffer returns at once without a call to the transport.
PayloadWait ==
    /\ pc = "read"
    /\ message.status = "header"
    /\ payload_read_size(inbound) > 0
    /\ \E d \in 0..ReadDeadline :
           /\ now + d <= TimedMaxTime
           /\ now' = now + d
    /\ message' = [status |-> "payload"]
    /\ UNCHANGED <<pc, inbound, wrote, relation_cache, last_received_lsn,
                   last_status_update, result, accepted, replaced>>
    /\ UNCHANGED frameVars

\* read_message returns once its reads have, and next dispatches on it.
TimedReadStep ==
    /\ \/ message.status = "payload"
       \/ message.status = "header" /\ payload_read_size(inbound) <= 0
    /\ ReadStep

TimedNext ==
    \/ TimedServerSend
    \/ CallNext
    \/ Housekeeping
    \/ HeaderWait
    \/ PayloadWait
    \/ TimedReadStep

SpecTimed == Init /\ [][TimedNext]_vars

(***************************************************************************)
(* SpecHeader: read_message on a stream that starts with any five header   *)
(* bytes: the length field is what the peer sent, or what a stream that    *)
(* lost its alignment holds at that place.                                 *)
(***************************************************************************)
MaxHeaderLength == 6    \* largest length field handed to read_message

HeaderLengths == {MinI32, -2147483647, -5, -1} \cup (0..MaxHeaderLength)

HeaderInit ==
    /\ f_pc = "header_in"
    /\ f_type \in FrameTypes
    /\ f_data \in {i32_to_be_bytes(length) : length \in HeaderLengths}
    /\ f_copy \in BOOLEAN
    /\ f_trail \in FrameTrails
    /\ f_wire = <<f_type>> \o f_data \o f_trail
    /\ f_msg = [status |-> "none"]
    /\ SubIdle

\* read_message(f_copy) on the stream f_wire.
HeaderRead ==
    /\ f_pc = "header_in"
    /\ LET r == read_message(f_wire, f_copy)
       IN  /\ r.status # "blocked"
           /\ f_msg' = [status |-> r.status, msg |-> r.msg]
           /\ f_wire' = r.rest
    /\ f_pc' = "header_read"
    /\ UNCHANGED <<f_type, f_data, f_copy, f_trail>>
    /\ UNCHANGED subVars

SpecHeader == HeaderInit /\ [][HeaderRead]_vars

(***************************************************************************)
(* SpecBurst: the server sends three WAL-data frames at once, the first    *)
(* of which does not decode; the caller calls next until all are read.     *)
(***************************************************************************)
\* Frames whose pgoutput payload does not decode: a Begin cut short and an
\* Insert that ends before its tuple.
BadFrames ==
    { XLogData(5, <<Byte_B, 0, 0>>),
      XLogData(5, <<Byte_I>> \o RelId \o <<Byte_N>>) }

GoodFrames ==
    { XLogData(6, <<Byte_B>> \o u64_to_be_bytes(6)),
      XLogData(7, <<Byte_C>> \o u64_to_be_bytes(7)),
      XLogData(4, RelationA),
      XLogData(4, InsertTwo) }

\* Two different frames that decode, one after the other.
GoodPairs ==
    {p[1] \o p[2] : p \in {q \in GoodFrames \X GoodFrames : q[1] # q[2]}}

\* The burst arrives while a read of next waits on the empty stream.
BurstServerSend ==
    /\ pc = "read"
    /\ inbound = <<>>
    /\ \E bad \in BadFrames, rest \in GoodPairs : inbound' = bad \o rest
    /\ UNCHANGED <<pc, wrote, relation_cache, last_received_lsn,
                   last_status_update, now, result, message, accepted,
                   replaced>>
    /\ UNCHANGED frameVars

BurstNext ==
    \/ BurstServerSend
    \/ CallNext
    \/ Housekeeping
    \/ ReadStep

SpecBurst == Init /\ [][BurstNext]_vars

(***************************************************************************)
(* SpecSub: the life of a Subscriber.  Subscriber::new is given a          *)
(* Connection that is established, runs start_replication and returns the  *)
(* Subscriber, on which the caller calls next again and again.             *)
(***************************************************************************)
SubCatalogue ==
    { PlainFrame(Byte_W, <<0, 0, 0>>),
      PlainFrame(Byte_E, ErrorPayload),
      PlainFrame(88, <<>>),
      Keepalive(3, 1),
      Keepalive(5, 0),
      XLogData(4, <<Byte_B>> \o u64_to_be_bytes(4)) }

\* Connection::new has returned; `last_status_update: Instant::now()`.
SubInit ==
    /\ pc = "conn_ok"
    /\ inbound = <<>>
    /\ wrote = <<>>
    /\ relation_cache = EmptyCache
    /\ last_received_lsn = 0
    /\ last_status_update = 0
    /\ now = 0
    /\ result = NoResult
    /\ message = [status |-> "none"]
    /\ accepted = {}
    /\ replaced = FALSE
    /\ FrameOff

SubServerSend ==
    /\ Len(inbound) <= MaxBacklog
    /\ \E frame \in SubCatalogue : inbound' = inbound \o frame
    /\ UNCHANGED <<pc, wrote, relation_cache, last_received_lsn,
                   last_status_update, now, result, message, accepted,
                   replaced>>
    /\ UNCHANGED frameVars

\* `Ok(subscriber)`: Subscriber::new hands the Subscriber to the caller.
SubReturned ==
    /\ pc = "sr_ok"
    /\ pc' = "idle"
    /\ UNCHANGED <<inbound, wrote, relation_cache, last_received_lsn,
                   last_status_update, now, result, message, accepted,
                   replaced>>
    /\ UNCHANGED frameVars

SubNext ==
    \/ SubServerSend
    \/ TransportFail
    \/ StartQuery
    \/ StartWaitStep
    \/ SubReturned
    \/ Tick
    \/ CallNext
    \/ Housekeeping
    \/ ReadStep

SpecSub == SubInit /\ [][SubNext]_vars

(***************************************************************************)
(* SpecLive: the loop of next under fair scheduling.  The thread that is   *)
(* inside next runs: a housekeeping step or a read that can be taken is    *)
(* taken.  Nothing is assumed of the server, the clock or the caller.      *)
(***************************************************************************)
LiveCatalogue ==
    { Keepalive(5, 0),
      Keepalive(3, 1),
      CopyDataFrame(Byte_k, u64_to_be_bytes(5) \o i64_to_be_bytes(0)),
      XLogData(4, <<Byte_B>> \o u64_to_be_bytes(4)),
      XLogData(5, <<Byte_B, 0, 0>>),
      CopyDataFrame(Byte_w, u64_to_be_bytes(0) \o u64_to_be_bytes(5)
                            \o i64_to_be_bytes(0)),
      PlainFrame(Byte_E, <<83, 69, 0, 77, 120, 0, 0>>),
      PlainFrame(99, <<>>) }

LiveServerSend ==
    /\ Len(inbound) <= MaxBacklog
    /\ \E frame \in LiveCatalogue : inbound' = inbound \o frame
    /\ UNCHANGED <<pc, wrote, relation_cache, last_received_lsn,
                   last_status_update, now, result, message, accepted,
                   replaced>>
    /\ UNCHANGED frameVars

LiveNext ==
    \/ LiveServerSend
    \/ TransportFail
    \/ Tick
    \/ CallNext
    \/ Housekeeping
    \/ ReadStep

\* The step by which read_message returns to the loop of next: the bytes of a
\* frame, or a failure of the transport, are there and the call leaves its
\* read.  Under LiveNext only ReadStep changes pc from "read", and it can be
\* taken exactly when the read is not blocked, so its fairness is stated on
\* these steps.
ReadReturns ==
    /\ pc = "read"
    /\ read_message(inbound, TRUE).status # "blocked"
    /\ pc' \in {"loop", "idle", "panic"}

SpecLive ==
    /\ Init
    /\ [][LiveNext]_vars
    /\ WF_vars(Housekeeping)
    /\ WF_pc(ReadReturns)

(***************************************************************************)
(* SpecCut: the loop of next on a transport whose reads time out in the    *)
(* middle of a frame.  The server sends a frame; the bytes before the cut  *)
(* arrive, the read that waits for the rest times out, and the rest        *)
(* arrives afterwards.                                                     *)
(***************************************************************************)
MaxCutBacklog == 40     \* the server sends while at most this much is unread

CutCatalogue ==
    { Keepalive(5, 0),
      XLogData(4, <<Byte_B>> \o u64_to_be_bytes(4)) }

\* Where the time-out falls: before the frame, inside its header, between
\* header and payload, inside the payload.
CutPoints == {0, 1, 3, 5, 6, 12}

\* A frame with the time-out m after its first n bytes.
CutFrame(frame, n, m) == Take(frame, n) \o <<m>> \o Drop(frame, n)

\* The server sends one frame, whole or cut by a transient time-out, when
\* the pending read has not got its bytes.
CutServerSend ==
    /\ Len(inbound) <= MaxCutBacklog
    /\ read_message(inbound, TRUE).status = "blocked"
    /\ \E frame \in CutCatalogue :
          \/ inbound' = inbound \o frame
          \/ \E n \in CutPoints, m \in {WouldBlock, TimedOut} :
                inbound' = inbound \o CutFrame(frame, n, m)
    /\ UNCHANGED <<pc, wrote, relation_cache, last_received_lsn,
                   last_status_update, now, result, message, accepted,
                   replaced>>
    /\ UNCHANGED frameVars

CutNext ==
    \/ CutServerSend
    \/ CallNext
    \/ Housekeeping
    \/ ReadStep

SpecCut == Init /\ [][CutNext]_vars

Reads == Len(inbound') < Len(inbound)

\* The frame a read_message(false) of this state returns.
NextFrame == read_message(inbound, FALSE)

\* The read result m is an Authentication request of the given code.
IsAuthRequest(m, code) ==
    /\ m.status = "ok"
    /\ m.msg.message_type = Byte_R
    /\ Len(m.msg.data) >= 4
    /\ i32_from_be_bytes(Take(m.msg.data, 4)) = code

\* C11: Connection::new returns Ok only through these steps, in this order:
\* the startup packet is written (nothing is read before), an Authentication
\* request of code 0 is read, a ReadyForQuery frame is read; once it has
\* returned nothing more is read.
C11_StartupOrder ==
    [][ /\ pc = "startup" => ~Reads
        /\ (pc = "startup" /\ pc' # "startup" /\ pc' # "conn_failed") =>
              /\ pc' = "auth"
              /\ Len(wrote') = 1
              /\ i32_from_be_bytes(Take(wrote'[1], 4)) = Len(wrote'[1])
              /\ SubSeq(wrote'[1], 5, 8) = <<0, 3, 0, 0>>
        /\ (pc # "auth" /\ pc' = "auth") => pc = "startup"
        /\ (pc # "drain" /\ pc' = "drain") =>
              /\ pc = "auth" /\ Reads
              /\ IsAuthRequest(NextFrame, 0)
        /\ (pc # "conn_ok" /\ pc' = "conn_ok") =>
              /\ pc = "drain" /\ Reads
              /\ NextFrame.status = "ok" /\ NextFrame.msg.message_type = Byte_Z
        /\ (result'.kind = "ok" /\ result'.msg = "Connection") =>
              pc' = "conn_ok"
        /\ pc = "conn_ok" => ~Reads
      ]_vars

\* The constructor has returned Ok and a frame that arrived later is unread.
C11_Witness ==
    /\ pc = "conn_ok" /\ result.kind = "ok"
    /\ message.status = "ok" /\ message.msg.message_type = Byte_Z
    /\ inbound # <<>>

\* "unsupported authentication method: 10"
LowerCaseMethod10Text ==
    <<117, 110, 115, 117, 112, 112, 111, 114, 116, 101, 100, 32, 97, 117, 116,
      104, 101, 110, 116, 105, 99, 97, 116, 105, 111, 110, 32, 109, 101, 116,
      104, 111, 100, 58, 32, 49, 48>>

\* "Unsupported authentication method: 10"
Method10Text ==
    <<85, 110, 115, 117, 112, 112, 111, 114, 116, 101, 100, 32, 97, 117, 116,
      104, 101, 110, 116, 105, 99, 97, 116, 105, 111, 110, 32, 109, 101, 116,
      104, 111, 100, 58, 32, 49, 48>>

\* The constructor has failed on an Authentication request of code 10.
FailedOnScram ==
    pc = "conn_failed" /\ IsAuthRequest(message, 10)

\* C12 as stated: an Authentication request of code 10 makes the constructor
\* fail with Authentication("unsupported authentication method: 10").
C12_ScramLowerCase ==
    FailedOnScram =>
        result = ErrResult(ErrorWith("Authentication", LowerCaseMethod10Text))

\* C12 amended: the step that reads an Authentication request of code 10
\* makes the constructor fail with
\* Authentication("Unsupported authentication method: 10"), capital U, and
\* writes no password message.
C12_ScramUnsupported ==
    [][ (pc = "auth" /\ Reads /\ IsAuthRequest(NextFrame, 10)) =>
            /\ pc' = "conn_failed"
            /\ result' = ErrResult(ErrorWith("Authentication", Method10Text))
            /\ wrote' = <<>>
      ]_vars

C12_Witness == FailedOnScram /\ result.kind = "err" /\ wrote = <<>>

\* C13: in handle_authentication an ErrorResponse fails the constructor with
\* Authentication(text of the payload), a frame that is neither 'R' nor 'E'
\* with ReplicationProtocolViolation, an 'R' payload under 4 bytes with
\* InvalidAuthRequest, an MD5 request under 8 bytes with
\* InvalidMd5AuthRequest; a password message is written only by the step that
\* reads a request of code 3 or 5, and that step writes exactly one.
C13_AuthenticationOutcomes ==
    [][ /\ (pc = "auth" /\ Reads /\ NextFrame.status = "ok") =>
              /\ NextFrame.msg.message_type = Byte_E =>
                    /\ pc' = "conn_failed"
                    /\ result'.kind = "err"
                    /\ result'.err.name = "Authentication"
                    /\ result'.err.text = error_fields(NextFrame.msg.data, <<>>)
              /\ NextFrame.msg.message_type \notin {Byte_R, Byte_E} =>
                    /\ pc' = "conn_failed"
                    /\ result'.kind = "err"
                    /\ result'.err.name = "ReplicationProtocolViolation"
              /\ (NextFrame.msg.message_type = Byte_R /\ Len(NextFrame.msg.data) < 4) =>
                    /\ pc' = "conn_failed"
                    /\ result'.kind = "err"
                    /\ result'.err.name = "InvalidAuthRequest"
              /\ (IsAuthRequest(NextFrame, 5) /\ Len(NextFrame.msg.data) < 8) =>
                    /\ pc' = "conn_failed"
                    /\ result'.kind = "err"
                    /\ result'.err.name = "InvalidMd5AuthRequest"
              /\ (\/ IsAuthRequest(NextFrame, 3)
                  \/ /\ IsAuthRequest(NextFrame, 5)
                     /\ Len(NextFrame.msg.data) >= 8) =>
                    \/ /\ Len(wrote') = 1 /\ wrote'[1][1] = Byte_p
                       /\ pc' = "auth"
                    \/ /\ wrote' = <<>> /\ pc' = "conn_failed"
                       /\ result'.err.name = "Io(Write)"
        /\ (wrote' # wrote /\ \E i \in DOMAIN wrote' : wrote'[i][1] = Byte_p) =>
              /\ pc = "auth" /\ Reads
              /\ IsAuthRequest(NextFrame, 3) \/ IsAuthRequest(NextFrame, 5)
              /\ Len(wrote') = 1
      ]_vars

\* The MD5 request was answered with one password message.
C13_Witness ==
    /\ pc = "auth" /\ IsAuthRequest(message, 5)
    /\ Len(wrote) = 1 /\ wrote[1][1] = Byte_p

\* C14: in process_startup_messages a frame of type 'S', 'K', 'N' or of an
\* unknown type is consumed and the loop goes on, whatever the payload; a
\* frame of type 'E' fails the constructor with ServerStartupFailure(text of
\* the payload); a frame of type 'Z', and no other, ends the loop with Ok.
C14_StartupDrain ==
    [][ (pc = "drain" /\ Reads /\ NextFrame.status = "ok") =>
            /\ NextFrame.msg.message_type \notin {Byte_Z, Byte_E} =>
                  pc' = "drain" /\ result' = result /\ wrote' = <<>>
            /\ NextFrame.msg.message_type = Byte_E =>
                  /\ pc' = "conn_failed"
                  /\ result' = ErrResult(ErrorWith("ServerStartupFailure",
                                    error_fields(NextFrame.msg.data, <<>>)))
            /\ NextFrame.msg.message_type = Byte_Z =>
                  pc' = "conn_ok" /\ result'.kind = "ok"
      ]_vars

\* A notice whose text is not UTF-8 and not terminated was consumed and the
\* loop goes on.
C14_Witness ==
    /\ pc = "drain" /\ message.status = "ok"
    /\ message.msg.message_type = Byte_N
    /\ ~is_utf8(message.msg.data)
    /\ result.kind = "none"

\* C15: Subscriber::new writes the START_REPLICATION command as a Query
\* frame, not wrapped in CopyData, before it reads anything; it returns Ok
\* exactly when a 'W' frame is read before any 'E' frame; an 'E' frame read
\* first makes it fail with ReplicationCommandFailed(text of the payload);
\* frames of other types are skipped; every other failure is a transport
\* error, never ReplicationCopyModeNotStarted.
C15_StartReplication ==
    [][ /\ pc = "conn_ok" => ~Reads
        /\ (pc # "sr_wait" /\ pc' = "sr_wait") =>
              /\ pc = "conn_ok"
              /\ Len(wrote') = 1
              /\ wrote'[1][1] = Byte_Q
              /\ i32_from_be_bytes(SubSeq(wrote'[1], 2, 5)) = Len(wrote'[1]) - 1
              /\ Drop(wrote'[1], 5) =
                    start_replication_command(<<115>>, <<112>>) \o <<0>>
        /\ (pc = "sr_wait" /\ Reads /\ NextFrame.status = "ok") =>
              /\ NextFrame.msg.message_type = Byte_W =>
                    pc' = "sr_ok" /\ result' = OkResult("Subscriber")
              /\ NextFrame.msg.message_type = Byte_E =>
                    /\ pc' = "sr_failed"
                    /\ result' = ErrResult(ErrorWith("ReplicationCommandFailed",
                                      error_fields(NextFrame.msg.data, <<>>)))
              /\ NextFrame.msg.message_type \notin {Byte_W, Byte_E} =>
                    pc' = "sr_wait" /\ result' = result
        /\ (pc # "sr_ok" /\ pc' = "sr_ok") =>
              /\ pc = "sr_wait" /\ Reads
              /\ NextFrame.status = "ok"
              /\ NextFrame.msg.message_type = Byte_W
        /\ (pc # "sr_failed" /\ pc' = "sr_failed") =>
              /\ result'.kind = "err"
              /\ \/ result'.err.name = "ReplicationCommandFailed"
                 \/ /\ result'.err.name = "Io(Write)" /\ pc = "conn_ok"
                 \/ /\ pc = "sr_wait" /\ NextFrame.status = "io"
                    /\ result'.err.name = IoError(NextFrame.kind)
      ]_vars

\* Subscriber::new has returned Ok on reading a 'W' frame.
C15_Witness ==
    /\ pc = "sr_ok" /\ result = OkResult("Subscriber")
    /\ message.status = "ok" /\ message.msg.message_type = Byte_W

\* The positions of the fields of the given type in the parsed payload.
FieldsOfType(t) == {i \in DOMAIN f_trail : f_trail[i].field_type = t}

\* C16: an ErrorResponse payload that has both a severity field 'S' and a
\* message field 'M', in whichever order, is rendered as
\* "{severity}: {message}".
C16_SeverityAndMessage ==
    f_pc = "err_out" =>
        \A i \in FieldsOfType(Byte_S), j \in FieldsOfType(Byte_M) :
            (/\ FieldsOfType(Byte_S) = {i} /\ FieldsOfType(Byte_M) = {j}
             /\ is_utf8(f_trail[i].value) /\ is_utf8(f_trail[j].value)) =>
                /\ f_msg.ok
                /\ f_msg.value =
                      f_trail[i].value \o <<58, 32>> \o f_trail[j].value

\* The frame a read_message(true) of this state returns.
NextCopyFrame == read_message(inbound, TRUE)

\* C17: the step of next that reads an ErrorResponse ('E') frame while
\* streaming does not return: the loop continues, and relation_cache and
\* last_received_lsn are as they were.
C17_StreamingErrorSkipped ==
    [][ (/\ pc = "read" /\ Reads
         /\ NextCopyFrame.status = "ok"
         /\ NextCopyFrame.msg.message_type = Byte_E) =>
            /\ pc' = "loop"
            /\ result' = result
            /\ relation_cache' = relation_cache
            /\ last_received_lsn' = last_received_lsn
            /\ wrote' = <<>>
      ]_vars

\* An ErrorResponse was read with a relation cached and an LSN recorded, and
\* the loop goes on.
C17_Witness ==
    /\ pc = "loop"
    /\ message.status = "ok" /\ message.msg.message_type = Byte_E
    /\ relation_cache # EmptyCache
    /\ last_received_lsn > 0

\* next has just returned on reading an XLogData frame that carries an
\* Insert message (and not on a status update it could not write, which
\* leaves the frame of the call before in `message`).
InsertRead ==
    /\ pc = "idle" /\ result.kind # "none"
    /\ result # ErrResult("Io(Write)")
    /\ message.status = "ok" /\ message.msg.message_type = Byte_w
    /\ Len(message.msg.data) > 32 /\ message.msg.data[25] = Byte_I

\* The field that starts at d is cut short by the end of the data.
WireFieldCut(d) ==
    \/ d = <<>>
    \/ /\ d[1] \in {Byte_t, Byte_b}
       /\ \/ Len(d) < 5
          \/ Len(d) < WireFieldSize(d)

RECURSIVE WireFieldList(_, _)
\* The first n fields on the wire from d on, up to the first one cut short:
\* the format byte, the raw value, and whether the field is whole.
WireFieldList(d, n) ==
    IF n = 0 THEN <<>>
    ELSE IF WireFieldCut(d)
    THEN <<[format |-> 0, raw |-> <<>>, null |-> FALSE, whole |-> FALSE]>>
    ELSE <<[format |-> d[1],
            raw |-> IF d[1] \in {Byte_t, Byte_b} /\ WireFieldSize(d) > 5
                    THEN SubSeq(d, 6, WireFieldSize(d)) ELSE <<>>,
            null |-> \/ d[1] \notin {Byte_t, Byte_b}
                     \/ i32_from_be_bytes(SubSeq(d, 2, 5)) < 0,
            whole |-> TRUE]>>
         \o WireFieldList(Drop(d, WireFieldSize(d)), n - 1)

\* The fields of the Insert message just read.
InsertFields ==
    WireFieldList(Drop(message.msg.data, 32),
                  u16_from_be_bytes(SubSeq(message.msg.data, 31, 32)))

\* The type OID next uses for field i of relation 1.
FieldOid(i) ==
    IF 1 \in DOMAIN relation_cache /\ i <= Len(relation_cache[1].columns)
    THEN relation_cache[1].columns[i].type_id
    ELSE PG_TYPE_TEXT

\* The error a field makes read_tuple_data fail with, "" when it has none:
\* a field cut short, a text field that is not UTF-8, is not a number for an
\* int4 column, or belongs to a column of an OID other than int4 and text.
FieldError(f, oid) ==
    IF ~f.whole THEN "UnexpectedEndOfData"
    ELSE IF f.format # Byte_t \/ f.null THEN ""
    ELSE IF ~is_utf8(f.raw) THEN "Utf8"
    ELSE IF oid = PG_TYPE_INT4
    THEN IF f.raw # <<>> /\ \A k \in DOMAIN f.raw : f.raw[k] \in 48..57
         THEN "" ELSE "ParseInt"
    ELSE IF oid = PG_TYPE_TEXT THEN ""
    ELSE "ParseValue"

\* The fields of the Insert just read that make read_tuple_data fail.
FailingFields ==
    {i \in DOMAIN InsertFields : FieldError(InsertFields[i], FieldOid(i)) # ""}

\* A binary field's bytes decode for its OID.
BinaryDecodes(f, oid) ==
    \/ oid = PG_TYPE_INT4 /\ Len(f.raw) = 4
    \/ oid = PG_TYPE_TEXT /\ is_utf8(f.raw)

\* What the claim says an undecodable binary field becomes.
ClaimedFallback(f, oid) == [tag |-> "Binary", s |-> f.raw]

\* What an undecodable binary field becomes: Binary for a text column whose
\* bytes are not UTF-8, Unknown with the OID for every other column.
ActualFallback(f, oid) ==
    IF oid = PG_TYPE_TEXT THEN [tag |-> "Binary", s |-> f.raw]
    ELSE [tag |-> "Unknown", s |-> f.raw, oid |-> oid]

\* What next returned for the Insert just read: the error of the first
\* failing field, or else a tuple with one value per field in which every
\* binary field that does not decode is Fallback(field, oid).
InsertDecodedWith(Fallback(_, _)) ==
    IF FailingFields # {}
    THEN \E i \in FailingFields :
            /\ \A j \in FailingFields : i <= j
            /\ result = ErrResult(FieldError(InsertFields[i], FieldOid(i)))
    ELSE /\ result.kind = "ok"
         /\ result.msg.type = "Insert"
         /\ Len(result.msg.tuple_data) = Len(InsertFields)
         /\ \A i \in DOMAIN InsertFields :
              (InsertFields[i].format = Byte_b /\ ~InsertFields[i].null) =>
                 IF BinaryDecodes(InsertFields[i], FieldOid(i))
                 THEN /\ result.msg.tuple_data[i] # NoneV
                      /\ result.msg.tuple_data[i].v.tag \in {"Integer", "Text"}
                 ELSE result.msg.tuple_data[i] =
                        Some(Fallback(InsertFields[i], FieldOid(i)))

TransportErrors ==
    {"Io(WouldBlock)", "Io(TimedOut)", "Io(UnexpectedEof)", "Io(Other)",
     "Io(Write)"}

C20_ShortReadIsUnexpectedEndOfData ==
    f_pc = "short" =>
        /\ f_msg.status = "io"
        /\ f_msg.error = "UnexpectedEndOfData"

\* C21: the step of next that reads a WAL-data ('w') frame with an empty
\* pgoutput payload (the 24-byte prefix alone, or less) makes next return an
\* error, EmptyWalData or UnexpectedEndOfData.
C21_EmptyWalDataReported ==
    [][ (/\ pc = "read" /\ Reads
         /\ NextCopyFrame.status = "ok"
         /\ NextCopyFrame.msg.message_type = Byte_w
         /\ Len(NextCopyFrame.msg.data) <= 24) =>
            /\ pc' = "idle"
            /\ result'.kind = "err"
            /\ result'.err \in {"EmptyWalData", "UnexpectedEndOfData"}
      ]_vars

\* The outer type byte and the whole payload of the frame SpecFrame wrote.
OuterType == IF f_copy THEN Byte_d ELSE f_type
OuterPayload == IF f_copy THEN <<f_type>> \o f_data ELSE f_data

\* The copy_data flag the frame was read with.
ReadInCopyMode == IF f_pc = "read" THEN f_copy ELSE ~f_copy

\* C25: read_message(true) returns (first payload byte, rest of the payload)
\* when the outer type is 'd' and the payload is not empty, and the frame as
\* it is (outer type, whole payload) when the outer type is not 'd' or the
\* payload is empty; read_message(false) returns the frame as it is, also
\* for type 'd'.
C25_CopyDataUnwrap ==
    f_pc \in {"read", "crossed"} =>
        /\ f_msg.status = "ok"
        /\ f_msg.msg =
              IF ReadInCopyMode /\ OuterType = Byte_d /\ OuterPayload # <<>>
              THEN [message_type |-> OuterPayload[1],
                    data |-> Tail(OuterPayload)]
              ELSE [message_type |-> OuterType, data |-> OuterPayload]

\* A frame of a type other than 'd' with a payload was read in copy mode
\* and came back as it was written.
C25_Witness ==
    /\ f_pc = "crossed" /\ ~f_copy
    /\ f_type = Byte_k /\ f_data # <<>>
    /\ f_msg.status = "ok"
    /\ f_msg.msg = [message_type |-> Byte_k, data |-> f_data]

\* C26: relation_cache changes only in the step of next that reads a
\* WAL-data frame and returns the Relation message decoded from it; every
\* other step (keepalive, ErrorResponse, unknown frames, the other pgoutput
\* messages, failed reads, every step that returns an error) leaves it as
\* it was.
C26_CacheChangesOnlyOnRelation ==
    [][ relation_cache' # relation_cache =>
            /\ pc = "read" /\ Reads
            /\ NextCopyFrame.status = "ok"
            /\ NextCopyFrame.msg.message_type = Byte_w
            /\ pc' = "idle"
            /\ result'.kind = "ok"
            /\ result'.msg.type = "Relation"
      ]_vars

\* next has returned an error on a WAL-data frame while the cache held a
\* relation.
C26_Witness ==
    /\ pc = "idle" /\ result.kind = "err"
    /\ message.status = "ok" /\ message.msg.message_type = Byte_w
    /\ relation_cache # EmptyCache

\* The Insert just read was returned with a text field of an int4 column
\* as Integer and a text field of a text column, of a column past the cached
\* ones or of an uncached relation as Text with the bytes of the field.
InsertDecodedByCache ==
    /\ result.kind = "ok"
    /\ result.msg.type = "Insert"
    /\ Len(result.msg.tuple_data) = Len(InsertFields)
    /\ \A i \in DOMAIN InsertFields :
          (InsertFields[i].format = Byte_t /\ ~InsertFields[i].null) =>
             /\ result.msg.tuple_data[i] # NoneV
             /\ IF FieldOid(i) = PG_TYPE_INT4
                THEN /\ result.msg.tuple_data[i].v.tag = "Integer"
                     /\ Len(InsertFields[i].raw) = 1 =>
                          result.msg.tuple_data[i].v.i
                             = InsertFields[i].raw[1] - 48
                ELSE result.msg.tuple_data[i].v =
                        [tag |-> "Text", s |-> InsertFields[i].raw]

\* C27: next decodes the field at position i of an Insert with the type_id
\* of column i of the cache entry of the relation, and with TEXT (25) when the cache has no entry for the relation or the entry
\* has no column i; the missing entry or column is no error.
C27_FieldOidFromCacheOrText ==
    (InsertRead /\ FailingFields = {}) => InsertDecodedByCache

\* An Insert of the text fields '7' and 'x' was returned as (Integer 7,
\* Text 'x') while the cached relation has the single column int4: the
\* second field has no column and was decoded as text.
C27_Witness ==
    /\ InsertRead /\ result.kind = "ok"
    /\ 1 \in DOMAIN relation_cache
    /\ Len(relation_cache[1].columns) = 1
    /\ result.msg.tuple_data =
          <<Some([tag |-> "Integer", i |-> 7]),
            Some([tag |-> "Text", s |-> <<120>>])>>

\* next has just returned on reading an XLogData frame that carries a
\* message of the given pgoutput type with a byte after its relation_id.
ChangeRead(type) ==
    /\ pc = "idle" /\ result.kind # "none"
    /\ result # ErrResult("Io(Write)")
    /\ message.status = "ok" /\ message.msg.message_type = Byte_w
    /\ Len(message.msg.data) > 29 /\ message.msg.data[25] = type

\* The byte after the relation_id of the message just read, and the bytes
\* after that byte.
ByteAfterRelId == message.msg.data[30]
AfterFlag == Drop(message.msg.data, 30)

\* The tuple decoded from d for relation 1.
TupleAt(d) == read_tuple_data(d, relation_cache, 1)

\* C28: for an Update, if the byte after relation_id is 'O' an old tuple is
\* decoded and returned as Some, followed by the new tuple; any other byte
\* is consumed, old_tuple_data is None and the bytes that follow are decoded
\* as the new tuple.  For a Delete, old_tuple_data is Some(decoded tuple)
\* exactly when that byte is 'O', and None otherwise, the rest ignored.
C28_OldTupleOnlyAfterO ==
    /\ ChangeRead(Byte_U) =>
          IF ByteAfterRelId = Byte_O
          THEN IF ~TupleAt(AfterFlag).ok
               THEN result = ErrResult(TupleAt(AfterFlag).err)
               ELSE IF ~TupleAt(TupleAt(AfterFlag).rest).ok
               THEN result = ErrResult(TupleAt(TupleAt(AfterFlag).rest).err)
               ELSE result = OkResult(
                      [type |-> "Update", relation_id |-> 1,
                       old_tuple_data |-> Some(TupleAt(AfterFlag).value),
                       new_tuple_data |->
                          TupleAt(TupleAt(AfterFlag).rest).value])
          ELSE IF ~TupleAt(AfterFlag).ok
               THEN result = ErrResult(TupleAt(AfterFlag).err)
               ELSE result = OkResult(
                      [type |-> "Update", relation_id |-> 1,
                       old_tuple_data |-> NoneV,
                       new_tuple_data |-> TupleAt(AfterFlag).value])
    /\ ChangeRead(Byte_D) =>
          IF ByteAfterRelId = Byte_O
          THEN IF ~TupleAt(AfterFlag).ok
               THEN result = ErrResult(TupleAt(AfterFlag).err)
               ELSE result = OkResult(
                      [type |-> "Delete", relation_id |-> 1,
                       old_tuple_data |-> Some(TupleAt(AfterFlag).value)])
          ELSE result = OkResult([type |-> "Delete", relation_id |-> 1,
                                  old_tuple_data |-> NoneV])

\* An Update whose byte after relation_id is 'K' was returned with no old
\* tuple and with the tuple that follows the 'K' as the new tuple.
C28_Witness ==
    /\ ChangeRead(Byte_U) /\ ByteAfterRelId = Byte_K
    /\ relation_cache = EmptyCache
    /\ result = OkResult([type |-> "Update", relation_id |-> 1,
                          old_tuple_data |-> NoneV,
                          new_tuple_data |->
                             <<Some([tag |-> "Text", s |-> <<55>>])>>])

\* C29: in tuple decoding a field whose format byte is 'n', 'u' or any byte
\* other than 't' and 'b' yields None and takes that one byte, and a 't' or
\* 'b' field of negative length yields None and takes the byte and the 4
\* length bytes, so that the field after it is decoded from the byte that
\* follows; a tuple that is decoded has exactly column_count entries.  Seen
\* on an Insert: such fields alone never make next fail, the tuple returned
\* has the be16 count of entries, the entries that are None are exactly
\* those fields, and a text field after them for a text column is returned
\* with its own bytes.
C29_ValuelessFieldsAreNone ==
    InsertRead =>
        /\ FailingFields = {} => result.kind = "ok"
        /\ result.kind = "ok" =>
              /\ Len(result.msg.tuple_data)
                    = u16_from_be_bytes(SubSeq(message.msg.data, 31, 32))
              /\ Len(InsertFields) = Len(result.msg.tuple_data)
              /\ \A i \in DOMAIN InsertFields :
                    /\ result.msg.tuple_data[i] = NoneV
                          <=> InsertFields[i].null
                    /\ (/\ InsertFields[i].format = Byte_t
                        /\ ~InsertFields[i].null
                        /\ FieldOid(i) = PG_TYPE_TEXT) =>
                          result.msg.tuple_data[i] =
                             Some([tag |-> "Text", s |-> InsertFields[i].raw])

\* An Insert whose first field has the format byte 'u' was returned as
\* (None, Text 'x').
C29_Witness ==
    /\ InsertRead /\ message.msg.data[33] = Byte_u
    /\ result.kind = "ok"
    /\ result.msg.tuple_data =
          <<NoneV, Some([tag |-> "Text", s |-> <<120>>])>>

\* next has just returned on reading an Insert of the form relation_id,
\* 'N', be16 column_count, column_count fields, each field a single format
\* byte that carries no value.
NullInsertRead ==
    /\ ChangeRead(Byte_I) /\ ByteAfterRelId = Byte_N
    /\ Len(message.msg.data) >= 32
    /\ Len(message.msg.data) - 32
          = u16_from_be_bytes(SubSeq(message.msg.data, 31, 32))
    /\ \A k \in 33..Len(message.msg.data) :
          message.msg.data[k] \notin {Byte_t, Byte_b}

\* C30: for an Insert payload relation_id, 'N', be16 column_count, fields,
\* the decoder takes exactly one 'N' marker and returns a tuple of exactly
\* column_count entries, for every column_count, also one whose high byte
\* is the byte 'N'.
C30_InsertTupleHasColumnCount ==
    NullInsertRead =>
        /\ result.kind = "ok"
        /\ result.msg.type = "Insert"
        /\ Len(result.msg.tuple_data)
              = u16_from_be_bytes(SubSeq(message.msg.data, 31, 32))

\* The characters of s without those at the positions of the four '-'.
UuidDigits(s) ==
    SubSeq(s, 1, 8) \o SubSeq(s, 10, 13) \o SubSeq(s, 15, 18)
    \o SubSeq(s, 20, 23) \o SubSeq(s, 25, 36)

\* C24: for every 16-byte input parse_binary_value with the OID UUID returns
\* Uuid(s), s of 36 characters in the form 8-4-4-4-12 of lower-case
\* hexadecimal digits that are the input bytes in order; an input of any
\* other length is returned as Unknown(bytes, 2950).
C24_UuidFromSixteenBytes ==
    (f_pc = "binary_out" /\ f_type = PG_TYPE_UUID) =>
        IF Len(f_data) = 16
        THEN /\ f_msg.ok
             /\ f_msg.value.tag = "Uuid"
             /\ Len(f_msg.value.s) = 36
             /\ \A i \in {9, 14, 19, 24} : f_msg.value.s[i] = 45
             /\ \A i \in (1..36) \ {9, 14, 19, 24} :
                   \/ f_msg.value.s[i] \in 48..57
                   \/ f_msg.value.s[i] \in 97..102
             /\ hex_decode(UuidDigits(f_msg.value.s)).ok
             /\ hex_decode(UuidDigits(f_msg.value.s)).value = f_data
        ELSE f_msg = Ok([tag |-> "Unknown", s |-> f_data, oid |-> 2950], <<>>)

\* The 16 bytes 10, 11, .. 25 were returned as
\* 0a0b0c0d-0e0f-1011-1213-141516171819.
C24_Witness ==
    /\ f_pc = "binary_out" /\ f_type = PG_TYPE_UUID
    /\ f_data = [i \in 1..16 |-> 9 + i]
    /\ f_msg.ok
    /\ f_msg.value =
          [tag |-> "Uuid",
           s |-> <<48, 97, 48, 98, 48, 99, 48, 100, 45, 48, 101, 48, 102, 45,
                   49, 48, 49, 49, 45, 49, 50, 49, 51, 45, 49, 52, 49, 53,
                   49, 54, 49, 55, 49, 56, 49, 57>>]

\* The index at which the timezone suffix of the text starts: that of its
\* last '+' or '-'.
SuffixStart(text) ==
    CHOOSE i \in DOMAIN text :
        /\ text[i] \in {43, 45}
        /\ \A j \in DOMAIN text : j > i => text[j] \notin {43, 45}

\* The suffix as the claim has it rewritten.
RewrittenSuffix(s) ==
    IF Len(s) = 3 THEN s \o <<48, 48>>
    ELSE IF Len(s) = 6 /\ s[4] = 58 THEN <<s[1], s[2], s[3], s[5], s[6]>>
    ELSE s

\* The offset in minutes that the suffix +HH, -HH, +HH:MM or -HH:MM stands
\* for.
SuffixOffset(s) ==
    (IF s[1] = 45 THEN -1 ELSE 1)
    * ((s[2] - 48) * 600 + (s[3] - 48) * 60
       + (IF Len(s) = 6 THEN (s[5] - 48) * 10 + (s[6] - 48) ELSE 0))

\* The Zoned of the date and time `main` at the offset of the suffix s.
ZonedOf(main, s) ==
    [date_time |-> SubSeq(main, 1, 19),
     fraction |-> SubSeq(main, 21, Len(main)),
     offset |-> SuffixOffset(s)]

\* The suffixes "+01", "-05", "+05:30" and "-03:30".
OffsetSuffixes ==
    {s \in TimezoneTexts : Len(s) = 3 \/ (Len(s) = 6 /\ s[4] = 58)}

\* C23: parse_timestamptz rewrites the timezone suffix that starts at the
\* last '+' or '-' of the text, +HH to +HH00, +HH:MM to +HHMM, every other
\* suffix as it is; for a date and time followed by +HH or +HH:MM the result
\* is the TimestampTz of that local time and offset; a text with no timezone
\* suffix or of fewer than 3 characters yields an error.
C23_TimestamptzNormalised ==
    (f_type = PG_TYPE_TIMESTAMPTZ /\ f_pc \in {"timestamptz_out", "panic"}) =>
        /\ f_pc = "timestamptz_out"
        /\ (Len(f_data) < 3 \/ f_data \in CivilTexts) => ~f_msg.ok
        /\ (/\ Len(f_data) >= 3
            /\ \E i \in DOMAIN f_data : f_data[i] \in {43, 45}) =>
              /\ f_wire = SubSeq(f_data, 1, SuffixStart(f_data) - 1)
                          \o RewrittenSuffix(
                                SubSeq(f_data, SuffixStart(f_data),
                                       Len(f_data)))
              /\ \A c \in CivilTexts : \A s \in OffsetSuffixes :
                    f_data = c \o s => f_msg = Ok(ZonedOf(c, s), <<>>)

\* parse_text_value has returned a value for the text, and the value was
\* rendered and parsed again.
RoundTripDone == f_pc = "text_out" /\ f_msg.first.ok

\* The value returned is a NaN or an infinite float.
NonFinite(v) == v.tag \in {"Float", "Double"} /\ v.f.class # "finite"

\* C22 as stated: for every OID of BOOL, INT2, INT4, INT8, FLOAT4, FLOAT8,
\* UUID, JSON, JSONB, TEXT, VARCHAR and every text for which parse_text
\* returns a value v, parse_text of the Display form of v with the same OID
\* succeeds and yields a value equal to v.
C22_DisplayRoundTrip ==
    RoundTripDone =>
        /\ f_msg.again.ok
        /\ value_eq(f_msg.again.value, f_msg.first.value)

\* C22 amended: the same for every OID of the list but BOOL, except that a
\* NaN or an infinite float is parsed again but is not equal to itself
\* under the comparison of Value; for BOOL the Display form is "true" or
\* "false", which parse_text rejects.
C22_RoundTripButBool ==
    RoundTripDone =>
        IF f_type = PG_TYPE_BOOL
        THEN /\ f_wire \in {<<116, 114, 117, 101>>, <<102, 97, 108, 115, 101>>}
             /\ ~f_msg.again.ok
        ELSE /\ f_msg.again.ok
             /\ f_msg.again.value = f_msg.first.value
             /\ value_eq(f_msg.again.value, f_msg.first.value)
                   <=> ~NonFinite(f_msg.first.value)

\* The text "1.50" with the OID FLOAT4 was returned as the float 1.5,
\* rendered as "1.5" and parsed again to an equal value.
C22_Witness ==
    /\ RoundTripDone /\ f_type = PG_TYPE_FLOAT4
    /\ f_data = <<49, 46, 53, 48>>
    /\ f_wire = <<49, 46, 53>>
    /\ f_msg.again.ok
    /\ value_eq(f_msg.again.value, f_msg.first.value)

\* The read that is about to happen returns a keepalive whose payload is
\* shorter than 17 bytes.
ShortKeepaliveNext ==
    /\ pc = "read"
    /\ read_message(inbound, TRUE).status = "ok"
    /\ read_message(inbound, TRUE).msg.message_type = Byte_k
    /\ Len(read_message(inbound, TRUE).msg.data) < 17

\* C31: a keepalive frame whose payload is shorter than 17 bytes is skipped
\* silently: the step that consumes it takes next back to the top of its
\* loop without a result, last_received_lsn and the status timer keep their
\* values and no standby status update is written.
C31_ShortKeepaliveSkipped ==
    [][(ShortKeepaliveNext /\ inbound' = read_message(inbound, TRUE).rest) =>
          /\ pc' = "loop"
          /\ result' = result
          /\ last_received_lsn' = last_received_lsn
          /\ last_status_update' = last_status_update
          /\ wrote' = <<>>]_vars

\* A 16-byte keepalive that carries wal_end 5 was read while the LSN was
\* below 5: the loop goes on and the LSN is as it was.
C31_Witness ==
    /\ pc = "loop"
    /\ message.status = "ok"
    /\ message.msg.message_type = Byte_k
    /\ Len(message.msg.data) = 16
    /\ read_u64_from_slice(SubSeq(message.msg.data, 1, 8)).value = 5
    /\ last_received_lsn < 5
    /\ result = NoResult
    /\ wrote = <<>>

\* C32 as stated: while next runs and every read returns within the read
\* deadline D, no more than 10 s + D pass between two consecutive standby
\* status updates (or between the start of the timer and the first one).
C32_StatusUpdateCadence ==
    now - last_status_update <= StatusInterval + ReadDeadline

\* C32 amended: while next runs and every read_exact returns within the read
\* deadline D, no more than 10 s + 2 * D pass between two consecutive
\* standby status updates: read_message reads a frame with two calls of
\* read_exact, each of which may take D.
C32_StatusUpdateCadenceTwoReads ==
    now - last_status_update <= StatusInterval + 2 * ReadDeadline

\* A frame was read whose header and payload each took the read deadline to
\* arrive, one second before the update was due: the next update is written
\* 10 s + 2 * D - 1 s after the one before.
C32_Witness ==
    /\ pc = "loop"
    /\ last_status_update > 0
    /\ message.status = "ok"
    /\ now - last_status_update = StatusInterval - 1 + 2 * ReadDeadline

\* parse_binary_value was given the TIME OID and 8 bytes.
TimeRead == f_pc = "binary_out" /\ f_type = PG_TYPE_TIME /\ Len(f_data) = 8

\* The 8 bytes are an i64 m with 0 <= m < 86_400_000_000, which is
\* 20 * 2^32 + 29 * 2^24 + 14_114_816; the bytes are compared from the most
\* significant one, no more than three of them taken as a number.
InDay(bs) ==
    /\ SubSeq(bs, 1, 3) = <<0, 0, 0>>
    /\ \/ bs[4] < 20
       \/ bs[4] = 20 /\ bs[5] < 29
       \/ /\ bs[4] = 20
          /\ bs[5] = 29
          /\ from_be_bytes(SubSeq(bs, 6, 8)) < 14114816

\* C33: parse_binary with the TIME OID and the 8 bytes of m microseconds
\* returns Time(h, min, s, ns) only when 0 <= m < 86_400_000_000, and then
\* h * 3600 + min * 60 + s = m div 1_000_000 and ns = (m mod 1_000_000) *
\* 1000; for every other m it returns Unknown(bytes, 1083).
C33_TimeOfDayOnly ==
    TimeRead =>
        IF InDay(f_data)
        THEN /\ f_msg.ok
             /\ f_msg.value.tag = "Time"
             /\ f_msg.value.h * 3600 + f_msg.value.min * 60 + f_msg.value.s
                   = from_be_bytes(long_div(f_data, 1000000, 0, <<>>).q)
             /\ f_msg.value.ns = long_div(f_data, 1000000, 0, <<>>).r * 1000
        ELSE f_msg = Ok([tag |-> "Unknown", s |-> f_data,
                         oid |-> PG_TYPE_TIME], <<>>)

\* The bytes of s, its markers left out.
BytesOf(s) == SelectSeq(s, IsByte)

RECURSIVE WholeFrames(_)
\* bs is a sequence of whole frames of CutCatalogue.
WholeFrames(bs) ==
    \/ bs = <<>>
    \/ \E frame \in CutCatalogue :
          /\ Len(bs) >= Len(frame)
          /\ Take(bs, Len(frame)) = frame
          /\ WholeFrames(Drop(bs, Len(frame)))

\* The last read of next failed with a transient time-out and the loop is
\* about to read again.
RetryAfterTimeout ==
    /\ pc = "loop"
    /\ message.status = "io"
    /\ is_transient(message.kind)

\* C34: when a transient time-out has interrupted read_message, the retry of
\* next starts at a frame boundary: what is left to read is the interrupted
\* frame and the frames after it, whole.
C34_RetryAtFrameBoundary ==
    RetryAfterTimeout => WholeFrames(BytesOf(inbound))

\* C35: for every frame header whose length field, read as an i32, is
\* negative or less than 4, read_message returns an error: it does not
\* crash, underflow or attempt an oversized allocation.
C35_BadLengthIsError ==
    (f_pc = "header_read" /\ i32_from_be_bytes(f_data) < 4) =>
        f_msg.status \notin {"ok", "panic"}

\* The read that is about to happen returns a WAL-data ('w') frame.
WalDataNext ==
    /\ pc = "read"
    /\ read_message(inbound, TRUE).status = "ok"
    /\ read_message(inbound, TRUE).msg.message_type = Byte_w

\* C36: when next returns a decode error for a WAL-data frame,
\* last_received_lsn has the value it had before the frame was read.
C36_DecodeErrorKeepsLsn ==
    [][(/\ WalDataNext
        /\ inbound' = read_message(inbound, TRUE).rest
        /\ result'.kind = "err") =>
          last_received_lsn' = last_received_lsn]_vars

\* The frame the server sent for the message that was last read.
LastFrame == CopyDataFrame(message.msg.message_type, message.msg.data)

\* C37: after next has returned a decode error for a frame that was read
\* completely, what is left to read is the frames the server sent after it,
\* from the first byte of the next one; the calls that follow return these
\* frames' messages in the order of arrival, each decoded from its own
\* bytes.
C37_NextFrameAfterDecodeError ==
    /\ (pc = "idle" /\ result.kind = "err") => inbound \in GoodPairs
    /\ (pc = "idle" /\ result.kind = "ok") =>
          /\ \/ LastFrame \o inbound \in GoodPairs
             \/ inbound = <<>> /\ LastFrame \in GoodFrames
          /\ result.msg =
                parse_wal_data(wal_payload(message.msg.data),
                               relation_cache).value

\* The truncated Begin was refused, and the call after it returned the
\* Begin that followed; the Commit sent last is still to be read.
C37_Witness ==
    /\ pc = "idle"
    /\ result.kind = "ok"
    /\ result.msg.type = "Begin"
    /\ accepted = {5, 6}
    /\ inbound = XLogData(7, <<Byte_C>> \o u64_to_be_bytes(7))

\* The positions of pc inside and between calls of next.
Streaming == {"idle", "loop", "read"}

\* C38: the Subscriber writes the 'Q' query, outside CopyData, as its first
\* message and before 'W' is read; every message it writes afterwards is a
\* CopyData ('d') frame of inner type 'r', written from inside next, and
\* next runs only after Subscriber::new has read a CopyBothResponse ('W').
C38_QueryThenStatusUpdates ==
    [][ /\ wrote' # wrote =>
              \A i \in 1..Len(wrote') :
                  IF pc = "conn_ok"
                  THEN wrote'[i][1] = Byte_Q
                  ELSE /\ pc \in {"loop", "read"}
                       /\ wrote'[i][1] = Byte_d
                       /\ wrote'[i][6] = Byte_r
        /\ (pc \notin Streaming /\ pc' \in Streaming) => pc = "sr_ok"
        /\ (pc # "sr_ok" /\ pc' = "sr_ok") =>
              /\ pc = "sr_wait"
              /\ NextFrame.status = "ok"
              /\ NextFrame.msg.message_type = Byte_W
              /\ inbound' = NextFrame.rest
      ]_vars

\* After 'W' was read, next has written a standby status update in reply to
\* a keepalive, wrapped in CopyData.
C38_Witness ==
    /\ pc = "loop"
    /\ Len(wrote) = 1
    /\ wrote[1][1] = Byte_d
    /\ wrote[1][6] = Byte_r
    /\ message.status = "ok"
    /\ message.msg.message_type = Byte_k

\* A call of next is running.
InNext == pc \in {"loop", "read"}

\* What the transport delivers next is a WAL-data frame with more than 24
\* payload bytes, or a read error that is not transient.
ReturningRead ==
    \/ /\ read_message(inbound, TRUE).status = "ok"
       /\ read_message(inbound, TRUE).msg.message_type = Byte_w
       /\ Len(read_message(inbound, TRUE).msg.data) > 24
    \/ /\ read_message(inbound, TRUE).status = "io"
       /\ read_message(inbound, TRUE).kind \in {UnexpectedEof, ConnectionReset}

\* C39: a call of next returns once the transport delivers a WAL-data frame
\* with more than 24 payload bytes or fails with an error that is not
\* transient; nothing else makes it return: not a keepalive, an
\* ErrorResponse, an unknown frame or a transient time-out; a return is
\* caused by such a frame, such a read error or a failed write of a status
\* update, and the error is never ReplicationStreamTimedOut.
C39_NextReturns ==
    /\ (InNext /\ ReturningRead) ~> (pc = "idle")
    /\ [][(InNext /\ pc' = "idle") =>
            /\ \/ pc = "read" /\ ReturningRead
               \/ result' = ErrResult("Io(Write)")
            /\ result'.kind = "err" =>
                  result'.err # "ReplicationStreamTimedOut"]_vars

\* next skipped a keepalive with wal_end 3 and returned the Begin message of
\* the WAL-data frame that followed.
C39_Witness ==
    /\ pc = "idle"
    /\ result.kind = "ok"
    /\ result.msg.type = "Begin"
    /\ accepted = {3, 4}

\* C40: parse_timestamptz returns a value or an error for every text,
\* whatever its length, texts whose normalised form is longer than the 256
\* bytes of normalized_buf included; it never aborts with an index out of
\* bounds.
C40_TimestamptzNeverAborts ==
    (f_type = PG_TYPE_TIMESTAMPTZ /\ f_pc \in {"timestamptz_out", "panic"}) =>
        /\ f_pc = "timestamptz_out"
        /\ f_msg.ok \in BOOLEAN

====
